---- MODULE Spec2Model ----
(***************************************************************************)
(* The extraction loop of pie (core/extract.ts: extract, runExtraction,    *)
(* callLlm and helpers), the validation pipeline (core/validators) and the *)
(* cache policy around it, as a state machine.  One extraction is one      *)
(* process; its position `pc' is the await it is suspended at.  The        *)
(* Generation Service, the validators, the cache store and the cache-key   *)
(* function are collaborators: each of their calls returns or throws, and  *)
(* the outcome is chosen nondeterministically from a small set.            *)
(* Spec is one call of extract(); SpecTwice repeats the request against    *)
(* the store the first call wrote; KeySpec computes the cache key          *)
(* (core/cache/key.ts) of a request twice.                                 *)
(* The collaborators have machines of their own: StoreSpec is the cache    *)
(* stores (core/cache/memory.ts, file.ts), RaceSpec two invocations on one *)
(* key, CommandSpec and HttpSpec the external validators, WrapSpec the     *)
(* schema layer on a wrapped shape, RefSpec resolveRefs and NormalizeSpec  *)
(* normalizeToolSchema of core/schema/normalize.ts.  WarmSpec is warmCache *)
(* (cache/warm.ts) followed by an extraction with the caller's options,    *)
(* CliSpec the exit code the CLI (main.ts) derives from an extraction.     *)
(***************************************************************************)
EXTENDS Integers, Sequences, FiniteSets, TLC

\* ------------------------------------------------------------------ bounds
\* options.maxTurns ranges over 1..MaxTurns
MaxTurns == 2
\* the TTL of a request that configures one (cacheOptions.ttl)
CacheTtl == 2

\* ------------------------------------------------------- program constants
RESPOND_TOOL_NAME == "respond"
RESPOND_FALLBACK_ID == "respond_fallback"
CONTINUE_TEXT == "Continue. Call the 'respond' tool when ready with your structured response."
FEEDBACK_HEAD == "Validation error in your previous JSON output:"
FEEDBACK_TAIL == "Continue. Call the 'respond' tool when ready with your corrected structured response."
TOOL_RESULT_PREFIX == "Validation error: "

Null == [t |-> "null"]
UnwrapKeyValue == [t |-> "string", s |-> "value"]
NoError == [kind |-> "undefined"]
NoEntry == [t |-> "undefined"]
NoTtl == [t |-> "undefined"]
Ttl(n) == [t |-> "number", n |-> n]
NoToolCall == [t |-> "undefined"]

\* --------------------------------------------------------------- JSON values
\* A primitive, an object without the key "value", an object with it.
Prim(p) == [t |-> "prim", p |-> p]
Obj(p) == [t |-> "obj", p |-> p]
ObjV(inner, rest) == [t |-> "objv", inner |-> inner, rest |-> rest]

\* ------------------------------------------------------------------- errors
Err(cls, message) == [kind |-> "Error", cls |-> cls, message |-> message]
ThrownString(s) == [kind |-> "string", str |-> s]
ThrownOther(s) == [kind |-> "other", str |-> s]

ExtractError(message) == Err("ExtractError", message)

AbortError(message) == Err("AbortError", message)

MaxTurnsErrorMutant(maxTurns, lastErr) ==
    [kind |-> "Error", cls |-> "MaxTurnsError", message |-> "Extraction failed after turns",
     turns |-> maxTurns, lastError |-> NoError]

MaxTurnsError(maxTurns, lastErr) ==
    [kind |-> "Error", cls |-> "MaxTurnsError", message |-> "Extraction failed after turns",
     turns |-> maxTurns, lastError |-> lastErr]

toError(e) ==
    IF e.kind = "Error" THEN e
    ELSE Err("Error", IF e.kind = "string" THEN e.str ELSE "Unknown error")

toAbortError(reason) ==
    IF reason.kind = "Error" /\ reason.cls = "AbortError" THEN reason
    ELSE IF reason.kind = "Error" THEN AbortError(reason.message)
    ELSE AbortError(IF reason.kind = "string" THEN reason.str ELSE "Extraction aborted")

\* validators/index.ts: e instanceof Error ? e.message : String(e)
FailText(e) == IF e.kind = "Error" THEN e.message ELSE e.str

\* -------------------------------------------------------------------- usage
ZeroUsage == [inputTokens |-> 0, outputTokens |-> 0, totalTokens |-> 0, cost |-> 0]

mapUsage(u) ==
    [inputTokens |-> u.input, outputTokens |-> u.output,
     totalTokens |-> u.totalTokens, cost |-> u.costTotal]

accumulateUsageMutant(target, extra) == extra

accumulateUsage(target, extra) ==
    [inputTokens |-> target.inputTokens + extra.inputTokens,
     outputTokens |-> target.outputTokens + extra.outputTokens,
     totalTokens |-> target.totalTokens + extra.totalTokens,
     cost |-> target.cost + extra.cost]


\* ------------------------------------------------- tool arguments (un)wrapping
normalizeToolArguments(args, unwrapKey) ==
    IF unwrapKey = Null THEN args
    ELSE IF args.t = "objv" THEN args
    ELSE ObjV(args, "none")

\* validateToolArguments (pi-ai): the shape accepts every value but "bad";
\* a wrapped shape accepts an object whose "value" field the shape accepts.
ShapeAccepts(v) == v.t # "objv" /\ v.p # "bad"

ValidatesAgainstTool(normalizedArgs, unwrapKey) ==
    IF unwrapKey = Null THEN ShapeAccepts(normalizedArgs)
    ELSE normalizedArgs.t = "objv" /\ ShapeAccepts(normalizedArgs.inner)

SCHEMA_ERROR == Err("Error", "Validation failed for tool respond")
UNWRAP_ERROR == Err("Error", "Validation failed for tool respond: missing value field.")

\* unwrapToolArguments: the data, or the error it throws
unwrapToolArguments(data, unwrapKey) ==
    IF unwrapKey = Null THEN [ok |-> TRUE, data |-> data]
    ELSE IF data.t # "objv" THEN [ok |-> FALSE, error |-> UNWRAP_ERROR]
    ELSE [ok |-> TRUE, data |-> data.inner]

\* lines 212-239: the schema layer on one candidate
SchemaLayer(args, unwrapKey) ==
    LET normalizedArgs == normalizeToolArguments(args, unwrapKey)
    IN  IF ValidatesAgainstTool(normalizedArgs, unwrapKey)
        THEN unwrapToolArguments(normalizedArgs, unwrapKey)
        ELSE [ok |-> FALSE, error |-> SCHEMA_ERROR]

\* ------------------------------------------------ Generation Service responses
RawUsageA == [input |-> 1, output |-> 2, totalTokens |-> 3, costTotal |-> 5]
RawUsageB == [input |-> 2, output |-> 1, totalTokens |-> 4, costTotal |-> 7]

ToolCall(id, name, arguments) == [t |-> "toolCall", id |-> id, name |-> name, arguments |-> arguments]

\* An assistant message: at most one tool call, and its text given by what
\* JSON.parse finds in it (Null: no parseable JSON).
Assistant(toolCall, textJson, usage) ==
    [role |-> "assistant", toolCall |-> toolCall, textJson |-> textJson, usage |-> usage]

Good1(unwrapKey) == IF unwrapKey = Null THEN Obj("a") ELSE Prim("a")
Good2(unwrapKey) == IF unwrapKey = Null THEN Obj("b") ELSE ObjV(Prim("b"), "none")
Bad(unwrapKey) == IF unwrapKey = Null THEN Obj("bad") ELSE Prim("bad")

\* What one Generation Service call yields: the deltas streamed, then the
\* terminal event "done" with the final assistant message.
Done(deltas, message) == [deltas |-> deltas, message |-> message]

Responses(unwrapKey) ==
    { Done(<<>>, Assistant(ToolCall("call_1", RESPOND_TOOL_NAME, Good1(unwrapKey)), Null, RawUsageA)),
      Done(<<"thinking_delta">>,
           Assistant(ToolCall("call_2", RESPOND_TOOL_NAME, Bad(unwrapKey)), Null, RawUsageB)),
      Done(<<"text_delta">>, Assistant(NoToolCall, Good2(unwrapKey), RawUsageB)),
      Done(<<>>, Assistant(NoToolCall, Bad(unwrapKey), RawUsageA)),
      Done(<<"thinking_delta", "text_delta">>, Assistant(NoToolCall, Null, RawUsageA)),
      Done(<<>>, Assistant(ToolCall("call_3", "search", Good1(unwrapKey)), Null, RawUsageB)) }

\* What a failing call yields: deltas, then an error payload (the stream's
\* "error" event) or a thrown value.
LlmFailures ==
    { [deltas |-> <<"text_delta">>, via |-> "payload"],
      [deltas |-> <<>>, via |-> "throw", thrown |-> Err("TypeError", "fetch failed")] }

createLlmError == ExtractError("LLM request failed")

findToolCall(message, toolName) ==
    IF message.toolCall # NoToolCall /\ message.toolCall.name = toolName
    THEN message.toolCall ELSE NoToolCall

parseJsonFromTextMutant(message) ==
    IF message.textJson = Null THEN Obj("a") ELSE message.textJson

\* part_010, lines 61-76: the first JSON value found in the text, or null
parseJsonFromText(message) == message.textJson

\* ------------------------------------------------------------ the validators
LayerOrder == <<"sync", "async", "command", "http">>

ValidatorConfigs == { {}, {"sync", "command"}, {"async", "http"}, {"command", "http"} }

\* What a failing layer throws.  The external layers are given the signal:
\* once it is signaled they may also reject with the platform's abort error.
LayerThrows(layer, isAborted) ==
    CASE layer = "sync" -> { Err("Error", "score too low"), ThrownOther("42") }
      [] layer = "async" -> { ThrownString("rejected by async check") }
      [] layer = "command" ->
            { Err("CommandValidationError", "Command exited with code 1") }
            \cup (IF isAborted THEN { Err("DOMException", "The operation was aborted") } ELSE {})
      [] layer = "http" ->
            { Err("HttpValidationError", "Validator returned 422") }
            \cup (IF isAborted THEN { Err("DOMException", "This operation was aborted") } ELSE {})

\* ------------------------------------------------------------------- events
StartEvent(maxTurns) == [type |-> "start", maxTurns |-> maxTurns]
ErrorEvent(error, turns) == [type |-> "error", error |-> error, turns |-> turns]
CompleteEvent(result, turns, usage) ==
    [type |-> "complete", result |-> result, turns |-> turns, usage |-> usage]
TurnStart(t) == [type |-> "turn_start", turn |-> t]
TurnEnd(t, hasResult) == [type |-> "turn_end", turn |-> t, hasResult |-> hasResult]
LlmStart == [type |-> "llm_start"]
LlmEnd(message, usage) == [type |-> "llm_end", message |-> message, usage |-> usage]
ValidationStart(layer) == [type |-> "validation_start", layer |-> layer]
ValidationPass(layer) == [type |-> "validation_pass", layer |-> layer]
ValidationError(layer, error) == [type |-> "validation_error", layer |-> layer, error |-> error]
CacheHit(age) == [type |-> "cache_hit", age |-> age]
CacheMiss == [type |-> "cache_miss"]
CacheSet == [type |-> "cache_set"]

\* extract(), lines 31-35: the stream's terminal test and its final result
IsTerminalEvent(event) == event.type = "complete" \/ event.type = "error"
ExtractResult(data, turns, usage) == [data |-> data, turns |-> turns, usage |-> usage]
StreamResult(event) ==
    IF event.type = "complete" THEN ExtractResult(event.result, event.turns, event.usage)
    ELSE [t |-> "undefined"]

\* ----------------------------------------------------------------- messages
UserMessage(content) == [role |-> "user", content |-> content]

\* The input of a request: a text, or a conversation (Message[]) the caller
\* holds as an array.
TextInput == [t |-> "string", s |-> "input"]
ConversationInput == [t |-> "messages", messages |-> << UserMessage(<<"input">>) >>]

\* part_010, lines 25-41: the conversation a request starts with; an array
\* is returned as it is, not copied
buildMessages(inp) ==
    IF inp.t # "string" THEN inp.messages ELSE << UserMessage(<<"input">>) >>

\* the caller's array after the loop has pushed onto the conversation: when
\* the input is an array, the conversation is that same array
Aliased(inp, msgs) == IF inp.t # "string" THEN [inp EXCEPT !.messages = msgs] ELSE inp

createContinueMessage == UserMessage(<<CONTINUE_TEXT>>)

createSchemaToolResult(toolCallId, error) ==
    [role |-> "toolResult", toolCallId |-> toolCallId, toolName |-> RESPOND_TOOL_NAME,
     content |-> <<TOOL_RESULT_PREFIX, error.message>>, isError |-> TRUE]

createSchemaFeedbackMessage(error) ==
    UserMessage(<<FEEDBACK_HEAD, error.message, "", FEEDBACK_TAIL>>)


\* -------------------------------------------------------------------- state
VARIABLES
    cfg,          \* the request: the input and ExtractOptions, as the caller passed them
    callerInput,  \* the caller's input object, as it is now
    now,          \* Date.now()
    store,        \* the cache store's entry under the request's key
    aborted,      \* signal.aborted
    abortReason,  \* signal.reason
    pc,           \* where runExtraction is: "init", an await, "done" or "failed"
    turn,         \* the loop variable (0 before the first turn)
    layerIdx,     \* runValidators: index in LayerOrder of the next layer
    events,       \* every event pushed to the stream, in order
    messages,     \* the conversation
    calls,        \* the conversations handed to the Generation Service, one per call
    totalUsage,
    lastError,
    assistant,    \* this turn's assistant message
    jsonSource,   \* "tool_call", "text" or "null"
    data,         \* the value the validators are running on
    entry,        \* the cache entry read at the start
    settled,      \* the promise runExtraction returned
    replies,      \* history: what the Generation Service answered, one per call
    verdicts,     \* history: what each validation layer answered, in order
    abortedAt,    \* history: where the extraction was when the signal fired
    invocation,   \* which call of extract() this is: 1, or 2 for a repeated request
    previous,     \* history: how the call before this one ended
    faults,       \* history: the cache operations that threw in this call
    keyRequest,   \* computeCacheKey: the request a key is computed for
    keyClock,     \* computeCacheKey: the wall clock
    keyFirst,     \* computeCacheKey: a first computation (request, time, key)
    keySecond,    \* computeCacheKey: a later computation
    storeKind,    \* cache store: "memory" (createMemoryCache) or "file" (createFileCache)
    map,          \* memory.ts: the Map, its entries in insertion order
    maxSize,      \* memory.ts: options.maxSize
    fs,           \* file.ts: the file system, its directories and files
    recency,      \* history: the keys a memory cache holds, least recently touched first
    written,      \* history: per key, the entry last set and not deleted or cleared since
    lastOp,       \* history: the store operation that ran last, and what it returned
    racers,       \* two invocations racing on one key: where each is, what its get returned
    child,        \* shell.ts: the subprocess of the command validator
    httpResponse, \* part_006: the response fetch resolved with
    validation,   \* the promise an external validator returned
    toolArguments, \* the schema layer on one answer: the model's value, its arguments, the data
    resolver,     \* normalize.ts, resolveRefs: seen, resolving, the call stack of resolveNode
    normalization, \* normalize.ts, normalizeToolSchema: the provider, the shape, what is returned
    warm,         \* warm.ts, warmCache: the caller's cache option, and how far the call is
    cli           \* main.ts, runCliInternal: the exit code once it has returned

vars == <<cfg, callerInput, now, store, aborted, abortReason, pc, turn, layerIdx, events,
          messages, calls, totalUsage, lastError, assistant, jsonSource, data, entry, settled,
          replies, verdicts, abortedAt, invocation, previous, faults,
          keyRequest, keyClock, keyFirst, keySecond,
          storeKind, map, maxSize, fs, recency, written, lastOp, racers,
          child, httpResponse, validation, toolArguments, resolver, normalization, warm, cli>>

\* the collaborators that are modelled on their own, and their state at rest
storeVars == <<storeKind, map, maxSize, fs, recency, written, lastOp>>
NoOp == [op |-> "none"]
NoStore ==
    /\ storeKind = "none" /\ map = <<>> /\ maxSize = 0 /\ fs = [dirs |-> {}, files |-> <<>>]
    /\ recency = <<>> /\ written = <<>> /\ lastOp = NoOp
NoRace == racers = <<>>
NoChild == [state |-> "none"]
NoResponse == [t |-> "undefined"]
NoValidator == child = NoChild /\ httpResponse = NoResponse /\ validation = [state |-> "idle"]
validatorVars == <<child, httpResponse, validation>>
NoSchemaLayer == toolArguments = <<>> /\ resolver = <<>> /\ normalization = <<>>
schemaVars == <<toolArguments, resolver, normalization>>
NoCli == [exit |-> "none"]
NoCaller == warm = <<>> /\ cli = NoCli
callerVars == <<warm, cli>>
side == <<storeVars, racers, validatorVars, schemaVars, callerVars>>
AtRest == NoStore /\ NoRace /\ NoValidator /\ NoSchemaLayer /\ NoCaller
besidesWarm == <<storeVars, racers, validatorVars, schemaVars, cli>>
besidesWarmAtRest == NoStore /\ NoRace /\ NoValidator /\ NoSchemaLayer /\ cli = NoCli
besidesStore == <<racers, validatorVars, schemaVars, callerVars>>
besidesStoreAtRest == NoRace /\ NoValidator /\ NoSchemaLayer /\ NoCaller
besidesRace == <<validatorVars, schemaVars, callerVars>>
besidesRaceAtRest == NoValidator /\ NoSchemaLayer /\ NoCaller
besidesCommand == <<storeVars, racers, httpResponse, schemaVars, callerVars>>
besidesCommandAtRest == NoStore /\ NoRace /\ httpResponse = NoResponse /\ NoSchemaLayer /\ NoCaller
besidesHttp == <<storeVars, racers, child, schemaVars, callerVars>>
besidesHttpAtRest == NoStore /\ NoRace /\ child = NoChild /\ NoSchemaLayer /\ NoCaller
besidesWrap == <<storeVars, racers, validatorVars, resolver, normalization, callerVars>>
besidesWrapAtRest == NoStore /\ NoRace /\ NoValidator /\ resolver = <<>> /\ normalization = <<>> /\ NoCaller
besidesRefs == <<storeVars, racers, validatorVars, toolArguments, normalization, callerVars>>
besidesRefsAtRest == NoStore /\ NoRace /\ NoValidator /\ toolArguments = <<>> /\ normalization = <<>> /\ NoCaller
besidesNormalize == <<storeVars, racers, validatorVars, toolArguments, resolver, callerVars>>
besidesNormalizeAtRest == NoStore /\ NoRace /\ NoValidator /\ toolArguments = <<>> /\ resolver = <<>> /\ NoCaller

NoAbort == [pc |-> "never", turn |-> 0]
NoPrevious == [t |-> "undefined"]
NoKey == [t |-> "undefined"]
Verdict(t, layer, outcome) == [turn |-> t, layer |-> layer, outcome |-> outcome]

Pending == [state |-> "pending"]
Returned(result) == [state |-> "fulfilled", result |-> result]
Thrown(error) == [state |-> "rejected", error |-> error]

\* The positions that are an await on a collaborator; the signal can fire there.
AwaitPcs == {"cache_get", "cache_delete", "llm", "val_wait", "cache_set"}

AbortReasons ==
    { AbortError("Extraction aborted"),
      Err("DOMException", "This operation was aborted"),
      ThrownString("user cancelled"),
      ThrownOther("[object Object]") }

CachedEntry ==
    [data |-> Prim("cached"), timestamp |-> 0, turns |-> 1, usage |-> mapUsage(RawUsageA)]

Configs ==
    [ input : {TextInput, ConversationInput},
      maxTurns : 1..MaxTurns,
      hasModel : BOOLEAN,
      hasStreamFn : BOOLEAN,
      validators : ValidatorConfigs,
      cache : {"off", "on", "revalidate"},
      ttl : {NoTtl, Ttl(CacheTtl)},
      unwrapKey : {Null, UnwrapKeyValue},
      thinkingUnsupported : BOOLEAN ]

resolveCacheMutant(options) ==
    IF options.cache = "off"
    THEN [active |-> FALSE, revalidate |-> FALSE]
    ELSE [active |-> TRUE, revalidate |-> (options.cache = "revalidate")]

resolveCacheRevalidates(options) ==
    IF options.cache = "off"
    THEN [active |-> FALSE, revalidate |-> FALSE]
    ELSE IF ({"sync", "async"} \cap options.validators # {}) /\ options.cache # "revalidate"
    THEN [active |-> FALSE, revalidate |-> FALSE]
    ELSE [active |-> TRUE, revalidate |-> TRUE]

\* resolveCache, lines 281-304: is the cache consulted, and with revalidation?
resolveCache(options) ==
    IF options.cache = "off"
    THEN [active |-> FALSE, revalidate |-> FALSE]
    ELSE IF ({"sync", "async"} \cap options.validators # {}) /\ options.cache # "revalidate"
    THEN [active |-> FALSE, revalidate |-> FALSE]
    ELSE [active |-> TRUE, revalidate |-> (options.cache = "revalidate")]

\* The requests explored.  A request without a model is rejected at once,
\* whatever else it holds; wrapping (unwrapKey) is explored without a cache,
\* and external validators alone with one, in a single turn: with a cache is
\* where they differ from a request that also has a function validator.
Init ==
    /\ cfg \in Configs
    /\ cfg.validators = {"command", "http"} =>
          (cfg.cache # "off" /\ cfg.maxTurns = 1 /\ ~cfg.thinkingUnsupported)
    /\ cfg.input # TextInput =>
          (cfg.cache = "off" /\ cfg.validators = {} /\ cfg.unwrapKey = Null
           /\ cfg.hasModel /\ cfg.hasStreamFn /\ ~cfg.thinkingUnsupported)
    /\ callerInput = cfg.input
    /\ cfg.cache = "off" => cfg.ttl = NoTtl
    /\ cfg.unwrapKey # Null => cfg.cache = "off"
    /\ cfg.thinkingUnsupported => (cfg.cache # "revalidate" /\ cfg.unwrapKey = Null)
    /\ ~cfg.hasModel =>
          (cfg.hasStreamFn /\ cfg.validators = {} /\ cfg.unwrapKey = Null /\ cfg.maxTurns = 1
           /\ ~cfg.thinkingUnsupported)
    /\ ~cfg.hasStreamFn =>
          (cfg.validators = {} /\ cfg.unwrapKey = Null /\ cfg.maxTurns = 1
           /\ ~cfg.thinkingUnsupported)
    /\ store \in {NoEntry, CachedEntry}
    /\ cfg.cache = "off" => store = NoEntry
    /\ now \in {0, CacheTtl + 1}
    /\ (store = NoEntry \/ cfg.ttl = NoTtl) => now = 0
    /\ aborted \in BOOLEAN
    /\ abortReason \in (IF aborted THEN AbortReasons ELSE {NoError})
    /\ pc = "init"
    /\ turn = 0
    /\ layerIdx = 1
    /\ events = <<>>
    /\ messages = <<>>
    /\ calls = <<>>
    /\ totalUsage = ZeroUsage
    /\ lastError = NoError
    /\ assistant = Null
    /\ jsonSource = "null"
    /\ data = Null
    /\ entry = NoEntry
    /\ settled = Pending
    /\ replies = <<>>
    /\ verdicts = <<>>
    /\ abortedAt = IF aborted THEN [pc |-> "init", turn |-> 0] ELSE NoAbort
    /\ invocation = 1
    /\ previous = NoPrevious
    /\ faults = {}
    /\ keyRequest = NoKey /\ keyClock = 0 /\ keyFirst = NoKey /\ keySecond = NoKey
    /\ AtRest

\* ------------------------------------------------ the loop's straight-line code
\* push the terminal error event and throw (lines 66-67, 72-73, 130-131,
\* 140-141, 178-179, 277-278)
Fail(evs, error, turns) ==
    /\ events' = Append(evs, ErrorEvent(error, turns))
    /\ pc' = "failed"
    /\ settled' = Thrown(error)

\* throw without a push: an exception that escapes runExtraction
Escape(evs, error) ==
    /\ events' = evs
    /\ pc' = "failed"
    /\ settled' = Thrown(error)

EnterLoopMutant(t, evs, msgs, lerr) ==
    /\ messages' = msgs
    /\ callerInput' = Aliased(callerInput, msgs)
    /\ lastError' = lerr
    /\ IF t > cfg.maxTurns
       THEN /\ Fail(evs, MaxTurnsError(cfg.maxTurns, lerr), cfg.maxTurns)
            /\ UNCHANGED <<turn, calls>>
       ELSE /\ events' = evs \o <<TurnStart(t), LlmStart>>
            /\ pc' = "llm"
            /\ turn' = t
            /\ calls' = Append(calls, [turn |-> t, messages |-> msgs])
            /\ settled' = settled

\* lines 137-175 and 276-278: the head of iteration t, up to the Generation
\* Service call; past maxTurns, the exit of the loop
EnterLoop(t, evs, msgs, lerr) ==
    /\ messages' = msgs
    /\ callerInput' = Aliased(callerInput, msgs)
    /\ lastError' = lerr
    /\ IF t > cfg.maxTurns
       THEN /\ Fail(evs, MaxTurnsError(cfg.maxTurns, lerr), cfg.maxTurns)
            /\ UNCHANGED <<turn, calls>>
       ELSE IF aborted
       THEN /\ Fail(evs, toAbortError(abortReason), t - 1)
            /\ UNCHANGED <<turn, calls>>
       ELSE /\ events' = evs \o <<TurnStart(t), LlmStart>>
            /\ pc' = "llm"
            /\ turn' = t
            /\ calls' = Append(calls, [turn |-> t, messages |-> msgs])
            /\ settled' = settled

\* lines 114-135: what precedes the loop
BeginTurns(evs) ==
    IF ~cfg.hasStreamFn
    THEN /\ Fail(evs, ExtractError("Missing required option streamFn."), 0)
         /\ UNCHANGED <<turn, calls, messages, callerInput, lastError>>
    ELSE EnterLoop(1, evs, buildMessages(callerInput), NoError)


ReturnCachedMutant(evs, e) ==
    /\ events' = evs \o <<CacheHit(now - e.timestamp), CompleteEvent(e.data, e.turns, totalUsage)>>
    /\ pc' = "done"
    /\ settled' = Returned(ExtractResult(e.data, e.turns, totalUsage))

\* lines 97-99 and 104-106: answer from the cache
ReturnCached(evs, e) ==
    /\ events' = evs \o <<CacheHit(now - e.timestamp), CompleteEvent(e.data, e.turns, e.usage)>>
    /\ pc' = "done"
    /\ settled' = Returned(ExtractResult(e.data, e.turns, e.usage))

CompleteMutant(evs) ==
    /\ events' = Append(evs, CompleteEvent(data, turn - 1, totalUsage))
    /\ pc' = "done"
    /\ settled' = Returned(ExtractResult(data, turn - 1, totalUsage))

\* lines 246-250 and 260-261: the result of a turn that passed
Complete(evs) ==
    /\ events' = Append(evs, CompleteEvent(data, turn, totalUsage))
    /\ pc' = "done"
    /\ settled' = Returned(ExtractResult(data, turn, totalUsage))

\* lines 231-235 and 266-270: the feedback message for a rejected candidate
Feedback(asst, src, err) ==
    IF src = "tool_call"
    THEN createSchemaToolResult(
             IF findToolCall(asst, RESPOND_TOOL_NAME) # NoToolCall
             THEN findToolCall(asst, RESPOND_TOOL_NAME).id ELSE RESPOND_FALLBACK_ID, err)
    ELSE createSchemaFeedbackMessage(err)

RetryWithMutant(evs, err, asst, src) ==
    EnterLoop(turn + 1, evs, messages \o <<asst, Feedback(asst, src, err)>>, err)

\* lines 226-238 and 263-273: record the error, extend the conversation, end
\* the turn and go round the loop
RetryWith(evs, err, asst, src) ==
    EnterLoop(turn + 1, Append(evs, TurnEnd(turn, FALSE)),
              messages \o <<asst, Feedback(asst, src, err)>>, err)

\* ---------------------------------------------------- runValidators (index.ts)
PassOutcome == [kind |-> "pass"]

ConfiguredFrom(i) == {j \in i..Len(LayerOrder) : LayerOrder[j] \in cfg.validators}

NextLayerMutant(i) ==
    IF ConfiguredFrom(i) = {} THEN 0
    ELSE CHOOSE j \in ConfiguredFrom(i) : \A k \in ConfiguredFrom(i) : j >= k

\* the next layer present in the request, from position i on; 0 when none
NextLayer(i) ==
    IF ConfiguredFrom(i) = {} THEN 0
    ELSE CHOOSE j \in ConfiguredFrom(i) : \A k \in ConfiguredFrom(i) : j <= k

\* runValidators is also run on a cached entry, before the first turn
Revalidating == turn = 0

\* runValidators resolved: lines 97-99 (revalidation) or 244-259 (a turn)
ValidatorsPassed(evs) ==
    IF Revalidating
    THEN /\ ReturnCached(evs, entry)
         /\ UNCHANGED <<turn, calls, messages, callerInput, lastError>>
    ELSE /\ UNCHANGED <<turn, calls, messages, callerInput, lastError>>
         /\ IF resolveCache(cfg).active
            THEN /\ events' = Append(evs, TurnEnd(turn, TRUE))
                 /\ pc' = "cache_set"
                 /\ settled' = settled
            ELSE Complete(Append(evs, TurnEnd(turn, TRUE)))

ValidatorsFailedMutant(evs, e) ==
    /\ Fail(evs, toError(e), turn)
    /\ UNCHANGED <<turn, calls, messages, callerInput, lastError>>

\* runValidators rejected with e: lines 100-102 (revalidation) or 262-273
ValidatorsFailed(evs, e) ==
    IF Revalidating
    THEN /\ events' = evs
         /\ pc' = "cache_delete"
         /\ UNCHANGED <<settled, turn, calls, messages, callerInput, lastError>>
    ELSE RetryWith(evs, toError(e), assistant, jsonSource)


\* ------------------------------------------------------------------ actions
keyVars == <<keyRequest, keyClock, keyFirst, keySecond>>
request == <<cfg, now, aborted, abortReason, abortedAt, invocation, previous, keyVars, side>>
env == <<request, faults>>
hist == <<replies, verdicts>>

\* lines 61 and 76-84: the start event, and the warning when thinking is
\* requested of a model without it
Preamble ==
    <<StartEvent(cfg.maxTurns)>>
    \o (IF cfg.thinkingUnsupported
        THEN <<[type |-> "warning", code |-> "thinking_unsupported"]>> ELSE <<>>)
turnVars == <<totalUsage, assistant, jsonSource, data, layerIdx>>
loopVars == <<turn, calls, messages, callerInput, lastError>>

KEY_ERROR == Err("Error", "cache key function failed")
STORE_ERROR == Err("Error", "cache store failed")

\* lines 61-74: start, no model or the signal already fired
StartReject ==
    /\ pc = "init"
    /\ ~cfg.hasModel \/ aborted
    /\ Fail(<<StartEvent(cfg.maxTurns)>>,
            IF ~cfg.hasModel THEN ExtractError("Missing required option model.")
            ELSE toAbortError(abortReason), 0)
    /\ UNCHANGED <<env, hist, store, entry, turnVars, loopVars>>

\* lines 61-88: start with the cache in use; the key function returns or throws
StartCache ==
    /\ pc = "init"
    /\ cfg.hasModel /\ ~aborted
    /\ resolveCache(cfg).active
    /\ \E keyThrows \in BOOLEAN :
        /\ faults' = (IF keyThrows THEN faults \cup {"key"} ELSE faults)
        /\ IF keyThrows
          THEN Escape(Preamble, KEY_ERROR)
          ELSE /\ events' = Preamble
               /\ pc' = "cache_get"
               /\ settled' = settled
    /\ UNCHANGED <<request, hist, store, entry, turnVars, loopVars>>

\* lines 61-175: start without a cache, through to the first call
StartNoCache ==
    /\ pc = "init"
    /\ cfg.hasModel /\ ~aborted
    /\ ~resolveCache(cfg).active
    /\ BeginTurns(Preamble)
    /\ UNCHANGED <<env, hist, store, entry, turnVars>>

ExpiredMutant(e) == cfg.ttl # NoTtl /\ (now - e.timestamp) >= cfg.ttl.n

Expired(e) == cfg.ttl # NoTtl /\ (now - e.timestamp) > cfg.ttl.n

\* lines 88-112: cacheStore.get returned or threw
CacheGet ==
    /\ pc = "cache_get"
    /\ \E getThrows \in BOOLEAN :
        /\ faults' = (IF getThrows THEN faults \cup {"get"} ELSE faults)
        /\ IF getThrows
          THEN /\ Escape(events, STORE_ERROR)
               /\ UNCHANGED <<entry, data, layerIdx, loopVars>>
          ELSE /\ entry' = store
               /\ IF store # NoEntry /\ ~Expired(store)
                  THEN IF resolveCache(cfg).revalidate
                       THEN /\ data' = store.data
                            /\ layerIdx' = 1
                            /\ pc' = "val_next"
                            /\ UNCHANGED <<events, settled, loopVars>>
                       ELSE /\ ReturnCached(events, store)
                            /\ UNCHANGED <<data, layerIdx, loopVars>>
                  ELSE /\ BeginTurns(Append(events, CacheMiss))
                       /\ UNCHANGED <<data, layerIdx>>
    /\ UNCHANGED <<request, hist, store, totalUsage, assistant, jsonSource>>

\* lines 100-112: cacheStore.delete returned or threw
CacheDelete ==
    /\ pc = "cache_delete"
    /\ \E deleteThrows \in BOOLEAN :
        /\ faults' = (IF deleteThrows THEN faults \cup {"delete"} ELSE faults)
        /\ IF deleteThrows
          THEN /\ Escape(events, STORE_ERROR)
               /\ UNCHANGED <<store, loopVars>>
          ELSE /\ store' = NoEntry
               /\ BeginTurns(Append(events, CacheMiss))
    /\ UNCHANGED <<request, hist, entry, turnVars>>

\* callLlm, lines 326-332: the deltas of one call, pushed as they arrive
DeltaEvents(deltas) ==
    [i \in 1..Len(deltas) |->
        IF deltas[i] = "text_delta" THEN [type |-> "llm_delta", delta |-> "chunk"]
        ELSE [type |-> "thinking", text |-> "chunk"]]

LlmFailMutant ==
    /\ pc = "llm"
    /\ \E f \in LlmFailures :
          /\ EnterLoop(turn + 1, Append(events \o DeltaEvents(f.deltas), TurnEnd(turn, FALSE)),
                       messages, IF f.via = "payload" THEN createLlmError ELSE toError(f.thrown))
          /\ replies' = Append(replies, [ok |-> FALSE, failure |-> f])
    /\ UNCHANGED <<env, verdicts, store, entry, turnVars>>

\* lines 176-180 with callLlm 336-338: the call failed
LlmFail ==
    /\ pc = "llm"
    /\ \E f \in LlmFailures :
          /\ Fail(events \o DeltaEvents(f.deltas),
                  IF f.via = "payload" THEN createLlmError ELSE toError(f.thrown), turn)
          /\ replies' = Append(replies, [ok |-> FALSE, failure |-> f])
    /\ UNCHANGED <<env, verdicts, store, entry, turnVars, loopVars>>

\* lines 182-239: the call returned message m; usage, candidate, schema layer
LlmDone ==
    /\ pc = "llm"
    /\ \E response \in Responses(cfg.unwrapKey) :
        LET m == response.message
            turnUsage == mapUsage(m.usage)
            toolCall == findToolCall(m, RESPOND_TOOL_NAME)
            args == IF toolCall # NoToolCall THEN toolCall.arguments ELSE parseJsonFromText(m)
            src == IF toolCall # NoToolCall THEN "tool_call"
                   ELSE IF args # Null THEN "text" ELSE "null"
            evs1 == Append(events \o DeltaEvents(response.deltas), LlmEnd(m, turnUsage))
                    \o (IF toolCall # NoToolCall
                        THEN <<[type |-> "tool_call", toolCall |-> toolCall],
                               [type |-> "json_extracted", source |-> "tool_call"]>>
                        ELSE IF args # Null
                        THEN <<[type |-> "json_extracted", source |-> "text"]>>
                        ELSE <<>>)
        IN  /\ replies' = Append(replies, [ok |-> TRUE, message |-> m])
            /\ totalUsage' = accumulateUsage(totalUsage, turnUsage)
            /\ assistant' = m
            /\ jsonSource' = src
            /\ IF args = Null
               THEN /\ EnterLoop(turn + 1,
                                 evs1 \o <<[type |-> "thinking", text |-> "text"],
                                           TurnEnd(turn, FALSE)>>,
                                 messages \o <<m, createContinueMessage>>, lastError)
                    /\ UNCHANGED <<data, layerIdx, verdicts>>
               ELSE LET r == SchemaLayer(args, cfg.unwrapKey)
                        evs2 == Append(evs1, ValidationStart("schema"))
                    IN  IF r.ok
                        THEN /\ verdicts' = Append(verdicts, Verdict(turn, "schema", PassOutcome))
                             /\ data' = r.data
                             /\ events' = Append(evs2, ValidationPass("schema"))
                             /\ pc' = "val_next"
                             /\ layerIdx' = 1
                             /\ UNCHANGED <<settled, loopVars>>
                        ELSE /\ RetryWith(Append(evs2, ValidationError("schema", r.error.message)),
                                          r.error, m, src)
                             /\ verdicts' = Append(verdicts, Verdict(turn, "schema", r.error))
                             /\ UNCHANGED <<data, layerIdx>>
    /\ UNCHANGED <<env, store, entry>>

ValSyncMutant ==
    /\ pc = "val_next"
    /\ NextLayer(layerIdx) # 0
    /\ LayerOrder[NextLayer(layerIdx)] = "sync"
    /\ \E o \in {PassOutcome} \cup LayerThrows("sync", aborted) :
          /\ verdicts' = Append(verdicts, Verdict(turn, "sync", o))
          /\ IF o = PassOutcome
             THEN /\ events' = events \o <<ValidationStart("sync"), ValidationPass("sync")>>
                  /\ layerIdx' = NextLayer(layerIdx) + 1
                  /\ UNCHANGED <<pc, settled, loopVars>>
             ELSE /\ events' = events \o <<ValidationStart("sync"), ValidationPass("sync")>>
                  /\ layerIdx' = NextLayer(layerIdx) + 1
                  /\ UNCHANGED <<pc, settled, loopVars>>
    /\ UNCHANGED <<env, replies, store, entry, totalUsage, assistant, jsonSource, data>>

\* runValidators, lines 34-43: the synchronous layer
ValSync ==
    /\ pc = "val_next"
    /\ NextLayer(layerIdx) # 0
    /\ LayerOrder[NextLayer(layerIdx)] = "sync"
    /\ \E o \in {PassOutcome} \cup LayerThrows("sync", aborted) :
          /\ verdicts' = Append(verdicts, Verdict(turn, "sync", o))
          /\ IF o = PassOutcome
             THEN /\ events' = events \o <<ValidationStart("sync"), ValidationPass("sync")>>
                  /\ layerIdx' = NextLayer(layerIdx) + 1
                  /\ UNCHANGED <<pc, settled, loopVars>>
             ELSE /\ ValidatorsFailed(events \o <<ValidationStart("sync"),
                                                  ValidationError("sync", FailText(o))>>, o)
                  /\ layerIdx' = layerIdx
    /\ UNCHANGED <<env, replies, store, entry, totalUsage, assistant, jsonSource, data>>

\* runValidators, lines 45-48, 56-59, 67-70: an awaited layer is started
ValCall ==
    /\ pc = "val_next"
    /\ NextLayer(layerIdx) # 0
    /\ LayerOrder[NextLayer(layerIdx)] # "sync"
    /\ events' = Append(events, ValidationStart(LayerOrder[NextLayer(layerIdx)]))
    /\ layerIdx' = NextLayer(layerIdx)
    /\ pc' = "val_wait"
    /\ UNCHANGED <<env, hist, store, entry, settled, totalUsage, assistant, jsonSource, data, loopVars>>

\* runValidators, lines 49-53, 60-64, 71-75: the awaited layer passed or threw
ValReturn ==
    /\ pc = "val_wait"
    /\ \E o \in {PassOutcome} \cup LayerThrows(LayerOrder[layerIdx], aborted) :
          /\ verdicts' = Append(verdicts, Verdict(turn, LayerOrder[layerIdx], o))
          /\ IF o = PassOutcome
             THEN /\ events' = Append(events, ValidationPass(LayerOrder[layerIdx]))
                  /\ layerIdx' = layerIdx + 1
                  /\ pc' = "val_next"
                  /\ UNCHANGED <<settled, loopVars>>
             ELSE /\ ValidatorsFailed(Append(events, ValidationError(LayerOrder[layerIdx],
                                                                     FailText(o))), o)
                  /\ layerIdx' = layerIdx
    /\ UNCHANGED <<env, replies, store, entry, totalUsage, assistant, jsonSource, data>>

\* runValidators, line 77: no layer is left
ValEnd ==
    /\ pc = "val_next"
    /\ NextLayer(layerIdx) = 0
    /\ ValidatorsPassed(events)
    /\ UNCHANGED <<env, hist, store, entry, turnVars>>

CacheWriteMutant ==
    /\ pc = "cache_set"
    /\ faults' = faults
    /\ store' = [data |-> data, timestamp |-> now, turns |-> 1, usage |-> totalUsage]
    /\ Complete(Append(events, CacheSet))
    /\ UNCHANGED <<request, hist, entry, turnVars, loopVars>>

CacheWriteThrowsMutant ==
    /\ pc = "cache_set"
    /\ \E setThrows \in BOOLEAN :
        /\ faults' = (IF setThrows THEN faults \cup {"set"} ELSE faults)
        /\ IF setThrows
          THEN /\ store' = store
               /\ Fail(events, STORE_ERROR, turn)
          ELSE /\ store' = [data |-> data, timestamp |-> now, turns |-> turn, usage |-> totalUsage]
               /\ Complete(Append(events, CacheSet))
    /\ UNCHANGED <<request, hist, entry, turnVars, loopVars>>

\* lines 252-261: cacheStore.set returned or threw
CacheWrite ==
    /\ pc = "cache_set"
    /\ \E setThrows \in BOOLEAN :
        /\ faults' = (IF setThrows THEN faults \cup {"set"} ELSE faults)
        /\ IF setThrows
          THEN /\ store' = store
               /\ Complete(events)
          ELSE /\ store' = [data |-> data, timestamp |-> now, turns |-> turn, usage |-> totalUsage]
               /\ Complete(Append(events, CacheSet))
    /\ UNCHANGED <<request, hist, entry, turnVars, loopVars>>

\* createAbortController, lines 467-488, and extract's abort(), line 44: the
\* token is signaled while the extraction awaits a collaborator
Abort ==
    /\ ~aborted
    /\ pc \in AwaitPcs
    /\ aborted' = TRUE
    /\ abortReason' \in AbortReasons
    /\ abortedAt' = [pc |-> pc, turn |-> turn]
    /\ UNCHANGED <<cfg, now, invocation, previous, faults, keyVars, side, hist, store, entry, pc, settled, events,
                   turnVars, loopVars>>

Next ==
    \/ StartReject
    \/ StartCache
    \/ StartNoCache
    \/ CacheGet
    \/ CacheDelete
    \/ LlmFail
    \/ LlmDone
    \/ ValSync
    \/ ValCall
    \/ ValReturn
    \/ ValEnd
    \/ CacheWrite
    \/ Abort

Spec == Init /\ [][Next]_vars

\* ------------------------------------------------------- a repeated request
\* extract() is called again with the identical request (and a fresh signal)
\* against the same store, once a first call has completed through a model
\* turn and written the cache; up to the TTL may have passed since.  (Of the
\* revalidating requests, those that allow one turn are repeated.)
SecondExtract ==
    /\ invocation = 1
    /\ pc = "done" /\ turn >= 1
    /\ resolveCache(cfg).active
    /\ resolveCache(cfg).revalidate => cfg.maxTurns = 1
    /\ invocation' = 2
    /\ events[Len(events) - 1] = CacheSet
    /\ previous' = [result |-> settled.result]
    /\ now' \in {now, now + CacheTtl}
    /\ aborted' = FALSE
    /\ abortReason' = NoError
    /\ abortedAt' = NoAbort
    /\ pc' = "init"
    /\ turn' = 0
    /\ layerIdx' = 1
    /\ events' = <<>>
    /\ messages' = <<>>
    /\ calls' = <<>>
    /\ totalUsage' = ZeroUsage
    /\ lastError' = NoError
    /\ assistant' = Null
    /\ jsonSource' = "null"
    /\ data' = Null
    /\ entry' = NoEntry
    /\ settled' = Pending
    /\ replies' = <<>>
    /\ verdicts' = <<>>
    /\ faults' = {}
    /\ UNCHANGED <<cfg, callerInput, store, keyVars, side>>

NextTwice ==
    \/ Next
    \/ SecondExtract

SpecTwice == Init /\ [][NextTwice]_vars


\* ------------------------------------------------------------- the cache key
\* the wall clock runs over 0..MaxClock while keys are computed
MaxClock == 2

Undefined == [t |-> "undefined"]
Str(s) == [t |-> "string", s |-> s]
\* JSON.stringify(v): the text of a JSON value, one text per value
JsonText(v) == [t |-> "string", json |-> v]
\* a ?? b
Nullish(a, b) == IF a = Undefined \/ a = Null THEN b ELSE a

KeyMessages == <<[role |-> "user", content |-> "hello"]>>
\* two texts, a conversation, and the text that spells that conversation's JSON
KeyInputs ==
    { Str("hello"), Str("other"), [t |-> "messages", messages |-> KeyMessages], JsonText(KeyMessages) }
\* kind stands for the symbol-keyed properties, which JSON.stringify leaves out
KeySchemas ==
    { [type |-> "object", properties |-> "value", kind |-> "Object"],
      [type |-> "string", properties |-> "", kind |-> "String"] }
KeyPrompts == { Str("Extract"), Str("Summarize") }
KeyModels ==
    { [provider |-> "openai", id |-> "model-a", name |-> Str("Model A")],
      [provider |-> "openai", id |-> "model-b", name |-> Str("Model A")],
      [provider |-> "openai", id |-> "model-c", name |-> Str("Model C")] }
KeyCommands == { Undefined, Str("make check") }
KeyUrls == { Undefined, Str("https://validator.test") }

KeyFields == {"input", "schema", "prompt", "model", "validateCommand", "validateUrl"}
KeyValues(field) ==
    CASE field = "input" -> KeyInputs
      [] field = "schema" -> KeySchemas
      [] field = "prompt" -> KeyPrompts
      [] field = "model" -> KeyModels
      [] field = "validateCommand" -> KeyCommands
      [] field = "validateUrl" -> KeyUrls
KeyRequests ==
    [input : KeyInputs, schema : KeySchemas, prompt : KeyPrompts, model : KeyModels,
     validateCommand : KeyCommands, validateUrl : KeyUrls]

\* JSON.stringify(options.schema)
JsonStringifySchema(schema) == JsonText([type |-> schema.type, properties |-> schema.properties])
\* createHash("sha256").update(text).digest("hex"), collisions aside
Sha256Hex(text) == [sha256 |-> text]

\* resolveCache, line 299
inputText(input) == IF input.t = "messages" THEN JsonText(input.messages) ELSE input

computeCacheKeyMutant(input, options) ==
    Sha256Hex(JsonText(
        [input |-> input,
         schema |-> JsonStringifySchema(options.schema),
         prompt |-> options.prompt,
         model |-> Nullish(options.model.name, Str("unknown")),
         validateCommand |-> Nullish(options.validateCommand, Null),
         validateUrl |-> Nullish(options.validateUrl, Null),
         timestamp |-> keyClock]))

\* key.ts, lines 5-15
computeCacheKey(input, options) ==
    Sha256Hex(JsonText(
        [input |-> input,
         schema |-> JsonStringifySchema(options.schema),
         prompt |-> options.prompt,
         model |-> Nullish(options.model.name, Str("unknown")),
         validateCommand |-> Nullish(options.validateCommand, Null),
         validateUrl |-> Nullish(options.validateUrl, Null)]))

\* resolveCache, lines 299-303, without a key function of the caller's
requestKey(options) == computeCacheKey(inputText(options.input), options)

Computed == [request |-> keyRequest, at |-> keyClock, key |-> requestKey(keyRequest)]

extraction == <<cfg, callerInput, now, store, aborted, abortReason, pc, turn, layerIdx, events,
                messages, calls, totalUsage, lastError, assistant, jsonSource, data, entry,
                settled, replies, verdicts, abortedAt, invocation, previous, faults>>

\* no extraction is running
NoExtraction ==
    /\ callerInput = TextInput
    /\ cfg = [input |-> TextInput, maxTurns |-> 1, hasModel |-> TRUE, hasStreamFn |-> TRUE, validators |-> {},
              cache |-> "on", ttl |-> NoTtl, unwrapKey |-> Null, thinkingUnsupported |-> FALSE]
    /\ now = 0 /\ store = NoEntry
    /\ aborted = FALSE /\ abortReason = NoError /\ abortedAt = NoAbort
    /\ pc = "idle" /\ turn = 0 /\ layerIdx = 1
    /\ events = <<>> /\ messages = <<>> /\ calls = <<>>
    /\ totalUsage = ZeroUsage /\ lastError = NoError
    /\ assistant = Null /\ jsonSource = "null" /\ data = Null /\ entry = NoEntry
    /\ settled = Pending
    /\ replies = <<>> /\ verdicts = <<>>
    /\ invocation = 1 /\ previous = NoPrevious /\ faults = {}

\* no extraction is running while keys are computed
KeyInit ==
    /\ NoExtraction
    /\ AtRest
    /\ keyRequest \in KeyRequests
    /\ keyClock = 0
    /\ keyFirst = NoKey
    /\ keySecond = NoKey

\* time passes
KeyTick ==
    /\ keyClock < MaxClock
    /\ keyClock' = keyClock + 1
    /\ UNCHANGED <<keyRequest, keyFirst, keySecond, extraction, side>>

\* the key of the request is computed
ComputeFirst ==
    /\ keyFirst = NoKey
    /\ keyFirst' = Computed
    /\ UNCHANGED <<keyRequest, keyClock, keySecond, extraction, side>>

\* the caller changes one component of the request
ChangeOne ==
    /\ keyFirst # NoKey /\ keySecond = NoKey
    /\ keyRequest = keyFirst.request
    /\ \E field \in KeyFields : \E v \in KeyValues(field) :
          /\ v # keyRequest[field]
          /\ keyRequest' = [keyRequest EXCEPT ![field] = v]
    /\ UNCHANGED <<keyClock, keyFirst, keySecond, extraction, side>>

\* the key is computed again, in this or in another invocation
ComputeSecond ==
    /\ keyFirst # NoKey /\ keySecond = NoKey
    /\ keySecond' = Computed
    /\ UNCHANGED <<keyRequest, keyClock, keyFirst, extraction, side>>

KeyNext ==
    \/ KeyTick
    \/ ComputeFirst
    \/ ChangeOne
    \/ ComputeSecond

KeySpec == KeyInit /\ [][KeyNext]_vars

\* ------------------------------------------------------------ the cache stores
\* options.maxSize of a memory cache ranges over 1..MaxSize
MaxSize == 2

\* A key is a string, modelled as the sequence of its characters; the token
\* ".json" stands for the extension file.ts appends.
MemoryKeys == { <<>>, <<"a">>, <<"a", "b">>, <<"/", "a">> }
FileKeys == { <<>>, <<"a">>, <<"/", "a">>, <<".", ".">>, <<"a", "/", "b">> }
StoreKeys == MemoryKeys \cup FileKeys

OtherEntry ==
    [data |-> Obj("a"), timestamp |-> 1, turns |-> 2, usage |-> mapUsage(RawUsageB)]
StoreEntries == { CachedEntry, OtherEntry }

\* !v, for v a string or undefined
Falsy(v) == v = Undefined \/ (v.t = "string" /\ v.s = <<>>)

\* ---- Map (insertion-ordered), as memory.ts uses it
MapKeys(m) == { m[i].key : i \in 1..Len(m) }
MapHas(m, key) == key \in MapKeys(m)
MapGet(m, key) ==
    IF MapHas(m, key) THEN (CHOOSE p \in { m[i] : i \in 1..Len(m) } : p.key = key).entry
    ELSE Undefined
MapDelete(m, key) == SelectSeq(m, LAMBDA p : p.key # key)
MapSet(m, key, e) ==
    IF MapHas(m, key)
    THEN [i \in 1..Len(m) |-> IF m[i].key = key THEN [key |-> key, entry |-> e] ELSE m[i]]
    ELSE Append(m, [key |-> key, entry |-> e])
\* map.keys().next().value
MapFirstKey(m) == IF Len(m) = 0 THEN Undefined ELSE Str(m[1].key)

\* memory.ts, lines 23-29
RECURSIVE EvictOldest(_, _)
EvictOldest(m, max) ==
    IF Len(m) > max
    THEN LET oldest == MapFirstKey(m)
         IN  IF Falsy(oldest) THEN m ELSE EvictOldest(MapDelete(m, oldest.s), max)
    ELSE m

Answer(state, value) == [state |-> state, ok |-> TRUE, value |-> value]
Throws(state, code) == [state |-> state, ok |-> FALSE, error |-> code]

\* memory.ts, lines 8-18
MemoryGet(m, key) ==
    LET e == MapGet(m, key)
    IN  IF e = Undefined THEN Answer(m, Undefined)
        ELSE Answer(MapSet(MapDelete(m, key), key, e), e)
\* memory.ts, lines 19-30
MemorySet(m, key, e, max) == Answer(EvictOldest(MapSet(MapDelete(m, key), key, e), max), Undefined)
\* memory.ts, lines 31-33
MemoryDelete(m, key) == Answer(MapDelete(m, key), Undefined)
\* memory.ts, lines 34-36
MemoryClear(m) == Answer(<<>>, Undefined)

\* ---- the file system under file.ts
\* options.directory, "/c", after line 24 stripped its trailing slashes
Directory == <<"/", "c">>

RECURSIVE Segments(_, _, _)
Segments(chars, cur, acc) ==
    IF chars = <<>> THEN (IF cur = <<>> THEN acc ELSE Append(acc, cur))
    ELSE IF Head(chars) = "/"
    THEN Segments(Tail(chars), <<>>, IF cur = <<>> THEN acc ELSE Append(acc, cur))
    ELSE Segments(Tail(chars), Append(cur, Head(chars)), acc)

RECURSIVE Canonical(_, _)
Canonical(segs, acc) ==
    IF segs = <<>> THEN acc
    ELSE IF Head(segs) = <<".">> THEN Canonical(Tail(segs), acc)
    ELSE IF Head(segs) = <<".", ".">>
    THEN Canonical(Tail(segs), IF acc = <<>> THEN acc ELSE SubSeq(acc, 1, Len(acc) - 1))
    ELSE Canonical(Tail(segs), Append(acc, Head(segs)))

\* the file or directory a path string names
Resolve(chars) == Canonical(Segments(chars, <<>>, <<>>), <<>>)

\* key.slice(0, 2)
Slice2(key) == SubSeq(key, 1, IF Len(key) < 2 THEN Len(key) ELSE 2)
\* file.ts, lines 5-8
cachePath(directory, key) == directory \o <<"/">> \o Slice2(key) \o <<"/">> \o key \o <<".json">>
\* file.ts, lines 10-12
cacheDir(directory, key) == directory \o <<"/">> \o Slice2(key)

Root == <<>>
Parent(path) == SubSeq(path, 1, Len(path) - 1)
Prefixes(path) == { SubSeq(path, 1, n) : n \in 0..Len(path) }
IsUnder(path, dir) == Len(path) >= Len(dir) /\ SubSeq(path, 1, Len(dir)) = dir
IsFile(fsys, path) == path \in DOMAIN fsys.files
IsDir(fsys, path) == path \in fsys.dirs

\* JSON.parse(text): the value of a complete text, a SyntaxError otherwise
JsonParse(text) ==
    IF "json" \in DOMAIN text THEN [ok |-> TRUE, value |-> text.json]
    ELSE [ok |-> FALSE, error |-> "SyntaxError"]
\* what a reader finds in a file that is being written
PartialText == [t |-> "string", partial |-> TRUE]

\* mkdir(path, { recursive: true })
Mkdirp(fsys, chars) ==
    LET path == Resolve(chars)
    IN  IF \E q \in Prefixes(path) : IsFile(fsys, q) THEN Throws(fsys, "EEXIST")
        ELSE Answer([fsys EXCEPT !.dirs = @ \cup Prefixes(path)], Undefined)
\* writeFile(path, text)
WriteFile(fsys, chars, text) ==
    LET path == Resolve(chars)
    IN  IF IsDir(fsys, path) THEN Throws(fsys, "EISDIR")
        ELSE IF ~IsDir(fsys, Parent(path)) THEN Throws(fsys, "ENOENT")
        ELSE Answer([fsys EXCEPT !.files =
                        [q \in DOMAIN fsys.files \cup {path} |->
                            IF q = path THEN text ELSE fsys.files[q]]], Undefined)
\* stat(path), as exists() uses it: file.ts, lines 14-21
exists(fsys, chars) == IsFile(fsys, Resolve(chars)) \/ IsDir(fsys, Resolve(chars))
\* readFile(path)
ReadFile(fsys, chars) ==
    LET path == Resolve(chars)
    IN  IF IsDir(fsys, path) THEN Throws(fsys, "EISDIR")
        ELSE IF ~IsFile(fsys, path) THEN Throws(fsys, "ENOENT")
        ELSE Answer(fsys, fsys.files[path])
\* rm(path, { force: true })
RmForce(fsys, chars) ==
    LET path == Resolve(chars)
    IN  IF IsDir(fsys, path) THEN Throws(fsys, "ERR_FS_EISDIR")
        ELSE Answer([fsys EXCEPT !.files = [q \in DOMAIN fsys.files \ {path} |-> fsys.files[q]]],
                    Undefined)
\* rm(path, { recursive: true, force: true })
RmRecursive(fsys, chars) ==
    LET path == Resolve(chars)
    IN  Answer([dirs |-> { d \in fsys.dirs : ~IsUnder(d, path) },
                files |-> [q \in { f \in DOMAIN fsys.files : ~IsUnder(f, path) } |-> fsys.files[q]]],
               Undefined)

\* file.ts, lines 27-34
FileGet(fsys, key) ==
    LET path == cachePath(Directory, key)
    IN  IF ~exists(fsys, path) THEN Answer(fsys, Undefined)
        ELSE LET text == ReadFile(fsys, path)
             IN  IF ~text.ok THEN text
                 ELSE IF JsonParse(text.value).ok THEN Answer(fsys, JsonParse(text.value).value)
                 ELSE Throws(fsys, JsonParse(text.value).error)
\* file.ts, lines 35-40
FileSet(fsys, key, e) ==
    LET made == Mkdirp(fsys, cacheDir(Directory, key))
    IN  IF ~made.ok THEN made
        ELSE WriteFile(made.state, cachePath(Directory, key), JsonText(e))
\* file.ts, lines 41-44
FileDelete(fsys, key) == RmForce(fsys, cachePath(Directory, key))
\* file.ts, lines 45-48
FileClear(fsys) ==
    LET removed == RmRecursive(fsys, Directory)
    IN  Mkdirp(removed.state, Directory)

\* ---- one store, used by one caller at a time
EmptyFs == [dirs |-> {Root}, files |-> [q \in {} |-> Undefined]]
NothingWritten == [k \in StoreKeys |-> Undefined]

\* the keys the caller uses with the store
Keys == IF storeKind = "memory" THEN MemoryKeys ELSE FileKeys
StoreGet(key) == IF storeKind = "memory" THEN MemoryGet(map, key) ELSE FileGet(fs, key)
StoreSet(key, e) ==
    IF storeKind = "memory" THEN MemorySet(map, key, e, maxSize) ELSE FileSet(fs, key, e)
StoreDelete(key) == IF storeKind = "memory" THEN MemoryDelete(map, key) ELSE FileDelete(fs, key)
StoreClear == IF storeKind = "memory" THEN MemoryClear(map) ELSE FileClear(fs)

\* the store takes the state an operation left
Becomes(r) ==
    /\ map' = (IF storeKind = "memory" THEN r.state ELSE map)
    /\ fs' = (IF storeKind = "memory" THEN fs ELSE r.state)

\* what the caller sees of an operation: the value returned, or the rejection
Seen(r) == IF r.ok THEN r.value ELSE [t |-> "rejected", code |-> r.error]

Ran(op, key, e, r) ==
    [op |-> op, key |-> key, entry |-> e, ok |-> r.ok, result |-> Seen(r),
     map |-> map, fs |-> fs, recency |-> recency]

Touch(keys, key) == Append(SelectSeq(keys, LAMBDA k : k # key), key)

StoreInit ==
    /\ NoExtraction
    /\ keyRequest = NoKey /\ keyClock = 0 /\ keyFirst = NoKey /\ keySecond = NoKey
    /\ besidesStoreAtRest
    /\ storeKind \in {"memory", "file"}
    /\ maxSize \in (IF storeKind = "memory" THEN 1..MaxSize ELSE {0})
    /\ map = <<>>
    /\ fs = EmptyFs
    /\ recency = <<>>
    /\ written = NothingWritten
    /\ lastOp = NoOp

Get ==
    \E key \in Keys :
        LET r == StoreGet(key)
        IN  /\ Becomes(r)
            /\ lastOp' = Ran("get", key, Undefined, r)
            /\ recency' = (IF storeKind = "memory" /\ r.value # Undefined
                           THEN Touch(recency, key) ELSE recency)
            /\ UNCHANGED <<storeKind, maxSize, written, extraction, keyVars, besidesStore>>

\* an entry a set pushed out of the memory cache is no longer written
Set ==
    \E key \in Keys : \E e \in StoreEntries :
        LET r == StoreSet(key, e)
            evicted == IF storeKind = "memory"
                       THEN (MapKeys(map) \cup {key}) \ MapKeys(r.state) ELSE {}
        IN  /\ Becomes(r)
            /\ lastOp' = Ran("set", key, e, r)
            /\ recency' = (IF storeKind = "memory"
                           THEN SelectSeq(Touch(recency, key), LAMBDA k : k \notin evicted)
                           ELSE recency)
            /\ written' = [k \in StoreKeys |->
                              IF k \in evicted THEN Undefined
                              ELSE IF k = key /\ r.ok THEN e ELSE written[k]]
            /\ UNCHANGED <<storeKind, maxSize, extraction, keyVars, besidesStore>>

Delete ==
    \E key \in Keys :
        LET r == StoreDelete(key)
        IN  /\ Becomes(r)
            /\ lastOp' = Ran("delete", key, Undefined, r)
            /\ recency' = SelectSeq(recency, LAMBDA k : k # key)
            /\ written' = (IF r.ok THEN [written EXCEPT ![key] = Undefined] ELSE written)
            /\ UNCHANGED <<storeKind, maxSize, extraction, keyVars, besidesStore>>

Clear ==
    LET r == StoreClear
    IN  /\ Becomes(r)
        /\ lastOp' = Ran("clear", <<>>, Undefined, r)
        /\ recency' = <<>>
        /\ written' = (IF r.ok THEN NothingWritten ELSE written)
        /\ UNCHANGED <<storeKind, maxSize, extraction, keyVars, besidesStore>>

StoreNext ==
    \/ Get
    \/ Set
    \/ Delete
    \/ Clear

StoreSpec == StoreInit /\ [][StoreNext]_vars


\* ------------------------------------------- two invocations race on one key
\* Two extractions of the same request run against one store.  Each is
\* suspended at the awaits of the cache policy (lines 86-112 and 252-257)
\* and, inside the file store, at the awaits of get and set; the steps of
\* the two interleave freely.
Racers == {1, 2}
RaceKey == <<"a", "b">>
NotYet == [t |-> "pending"]
\* the entry invocation i writes after its model turns
EntryOf(i) == [OtherEntry EXCEPT !.timestamp = i]

\* lines 89-112: what follows the answer of cacheStore.get
AfterGet(entryRead, revalidate) ==
    IF entryRead = Undefined THEN "turn"
    ELSE IF revalidate THEN "revalidate" ELSE "complete"

RaceInit ==
    /\ NoExtraction
    /\ keyRequest = NoKey /\ keyClock = 0 /\ keyFirst = NoKey /\ keySecond = NoKey
    /\ besidesRaceAtRest
    /\ storeKind \in {"memory", "file"}
    /\ maxSize = (IF storeKind = "memory" THEN MaxSize ELSE 0)
    /\ \E initial \in {Undefined, CachedEntry} :
          /\ map = (IF storeKind = "memory" /\ initial # Undefined
                    THEN MemorySet(<<>>, RaceKey, initial, maxSize).state ELSE <<>>)
          /\ fs = (IF storeKind = "file" /\ initial # Undefined
                   THEN FileSet(EmptyFs, RaceKey, initial).state ELSE EmptyFs)
          /\ written = [NothingWritten EXCEPT ![RaceKey] = initial]
    /\ recency = <<>>
    /\ lastOp = NoOp
    /\ \E revalidate \in BOOLEAN :
          racers = [i \in Racers |->
                       [pc |-> "get", got |-> NotYet, begun |-> FALSE, revalidate |-> revalidate]]

raceFrame == <<extraction, keyVars, storeKind, maxSize, recency, written, lastOp, besidesRace>>

\* line 88, cacheStore.get: the memory store answers in one step (memory.ts,
\* lines 8-18), the file store awaits stat first (file.ts, lines 28-31)
RaceGet ==
    \E i \in Racers :
        /\ racers[i].pc = "get"
        /\ IF storeKind = "memory"
           THEN LET r == MemoryGet(map, RaceKey)
                IN  /\ map' = r.state
                    /\ racers' = [racers EXCEPT ![i].got = r.value,
                                                ![i].pc = AfterGet(r.value, racers[i].revalidate)]
           ELSE /\ map' = map
                /\ IF exists(fs, cachePath(Directory, RaceKey))
                   THEN racers' = [racers EXCEPT ![i].pc = "read"]
                   ELSE racers' = [racers EXCEPT ![i].got = Undefined,
                                                 ![i].pc = AfterGet(Undefined, racers[i].revalidate)]
        /\ UNCHANGED <<fs, raceFrame>>

\* file.ts, lines 32-33: readFile and JSON.parse; a rejection of get escapes
\* runExtraction (line 88 is outside every try)
RaceRead ==
    \E i \in Racers :
        /\ racers[i].pc = "read"
        /\ LET text == ReadFile(fs, cachePath(Directory, RaceKey))
               answer == IF ~text.ok THEN text
                         ELSE IF JsonParse(text.value).ok
                         THEN Answer(fs, JsonParse(text.value).value)
                         ELSE Throws(fs, JsonParse(text.value).error)
           IN  racers' = [racers EXCEPT
                             ![i].got = Seen(answer),
                             ![i].pc = IF answer.ok
                                       THEN AfterGet(answer.value, racers[i].revalidate)
                                       ELSE "failed"]
        /\ UNCHANGED <<map, fs, raceFrame>>

\* lines 93-102: the validators accept the cached data, or reject it
RaceRevalidate ==
    \E i \in Racers : \E accepts \in BOOLEAN :
        /\ racers[i].pc = "revalidate"
        /\ racers' = [racers EXCEPT ![i].pc = IF accepts THEN "complete" ELSE "delete"]
        /\ UNCHANGED <<map, fs, raceFrame>>

\* line 101, cacheStore.delete
RaceDelete ==
    \E i \in Racers :
        /\ racers[i].pc = "delete"
        /\ LET r == IF storeKind = "memory" THEN MemoryDelete(map, RaceKey)
                    ELSE FileDelete(fs, RaceKey)
           IN  /\ map' = (IF storeKind = "memory" THEN r.state ELSE map)
               /\ fs' = (IF storeKind = "memory" THEN fs ELSE r.state)
               /\ racers' = [racers EXCEPT ![i].pc = IF r.ok THEN "turn" ELSE "failed"]
        /\ UNCHANGED raceFrame

\* lines 137-250: the model turns of a miss end with a result; line 253
\* calls cacheStore.set
RaceTurn ==
    \E i \in Racers :
        /\ racers[i].pc = "turn"
        /\ racers' = [racers EXCEPT ![i].pc = "set", ![i].begun = TRUE]
        /\ UNCHANGED <<map, fs, raceFrame>>

\* cacheStore.set: the memory store in one step (memory.ts, lines 19-30), the
\* file store up to its mkdir (file.ts, lines 36-37); a rejection is
\* swallowed (lines 252-257)
RaceSet ==
    \E i \in Racers :
        /\ racers[i].pc = "set"
        /\ IF storeKind = "memory"
           THEN /\ map' = MemorySet(map, RaceKey, EntryOf(i), maxSize).state
                /\ fs' = fs
                /\ racers' = [racers EXCEPT ![i].pc = "complete"]
           ELSE LET made == Mkdirp(fs, cacheDir(Directory, RaceKey))
                IN  /\ map' = map
                    /\ fs' = made.state
                    /\ racers' = [racers EXCEPT ![i].pc = IF made.ok THEN "write" ELSE "complete"]
        /\ UNCHANGED raceFrame

\* file.ts, line 39: writeFile opens the file, which empties it
RaceOpen ==
    \E i \in Racers :
        /\ racers[i].pc = "write"
        /\ LET opened == WriteFile(fs, cachePath(Directory, RaceKey), PartialText)
           IN  /\ fs' = opened.state
               /\ racers' = [racers EXCEPT ![i].pc = IF opened.ok THEN "written" ELSE "complete"]
        /\ UNCHANGED <<map, raceFrame>>

\* file.ts, line 39: writeFile has written the whole text
RaceWrite ==
    \E i \in Racers :
        /\ racers[i].pc = "written"
        /\ fs' = WriteFile(fs, cachePath(Directory, RaceKey), JsonText(EntryOf(i))).state
        /\ racers' = [racers EXCEPT ![i].pc = "complete"]
        /\ UNCHANGED <<map, raceFrame>>

RaceNext ==
    \/ RaceGet
    \/ RaceRead
    \/ RaceRevalidate
    \/ RaceDelete
    \/ RaceTurn
    \/ RaceSet
    \/ RaceOpen
    \/ RaceWrite

RaceSpec == RaceInit /\ [][RaceNext]_vars


\* ------------------------------------------------ the external-process validator
\* the error output of the subprocess is at most MaxStderr characters long
MaxStderr == 3

Num(n) == [t |-> "number", n |-> n]
Whitespace == {" ", "\n"}
StderrChars == {" ", "\n", "f"}
ExitCodes == {0, 1, 7}
Command == "check.sh"

\* String.prototype.trim, on the characters of a string
RECURSIVE TrimStart(_)
TrimStart(chars) ==
    IF chars # <<>> /\ Head(chars) \in Whitespace THEN TrimStart(Tail(chars)) ELSE chars
RECURSIVE TrimEnd(_)
TrimEnd(chars) ==
    IF chars # <<>> /\ chars[Len(chars)] \in Whitespace
    THEN TrimEnd(SubSeq(chars, 1, Len(chars) - 1)) ELSE chars
Trim(chars) == TrimEnd(TrimStart(chars))

\* `${text}${n}`
Template(text, n) == [t |-> "string", template |-> text, n |-> n]

\* errors.ts, lines 23-33
CommandValidationError(message, command, exitCode) ==
    [kind |-> "Error", cls |-> "CommandValidationError", message |-> message,
     command |-> command, exitCode |-> exitCode]

\* shell.ts, lines 42-56: what runShell resolves to once the child has closed;
\* value is the exit code, or null when a signal ended the process
runShell(value, stderrChars) ==
    [code |-> Nullish(value, Num(0)), stderr |-> stderrChars]

\* command.ts, lines 5-13
runCommandValidator(result) ==
    IF result.code = Num(0) THEN Returned(Undefined)
    ELSE LET trimmed == Trim(result.stderr)
             message == IF trimmed = <<>>
                        THEN Template("Command exited with code ", result.code)
                        ELSE Str(trimmed)
         IN  Thrown(CommandValidationError(message, Command, result.code))

CommandInit ==
    /\ NoExtraction
    /\ keyRequest = NoKey /\ keyClock = 0 /\ keyFirst = NoKey /\ keySecond = NoKey
    /\ besidesCommandAtRest
    /\ child = [state |-> "running", stderr |-> <<>>]
    /\ validation = Pending

commandFrame == <<extraction, keyVars, besidesCommand>>

\* shell.ts, line 21: the child writes to its error output
ChildWrites ==
    /\ child.state = "running"
    /\ Len(child.stderr) < MaxStderr
    /\ \E c \in StderrChars : child' = [child EXCEPT !.stderr = Append(@, c)]
    /\ UNCHANGED <<validation, commandFrame>>

\* shell.ts, line 44: "close" with the exit code of a process that exited
ChildExits ==
    /\ child.state = "running"
    /\ \E n \in ExitCodes :
          child' = [state |-> "closed", stderr |-> child.stderr, value |-> Num(n)]
    /\ UNCHANGED <<validation, commandFrame>>

\* shell.ts, line 44: "close" of a process that a signal ended: its code is null
ChildKilled ==
    /\ child.state = "running"
    /\ child' = [state |-> "closed", stderr |-> child.stderr, value |-> Null]
    /\ UNCHANGED <<validation, commandFrame>>

\* command.ts, lines 6-12, once runShell has resolved
CommandValidatorEnds ==
    /\ child.state = "closed"
    /\ validation = Pending
    /\ validation' = runCommandValidator(runShell(child.value, child.stderr))
    /\ UNCHANGED <<child, commandFrame>>

CommandNext ==
    \/ ChildWrites
    \/ ChildExits
    \/ ChildKilled
    \/ CommandValidatorEnds

CommandSpec == CommandInit /\ [][CommandNext]_vars

\* ------------------------------------------------------- the HTTP validator
Url == "https://validator.test"
Statuses == {200, 204, 299, 300, 400, 422, 503}

\* JSON values a body may hold
JsonString(s) == [t |-> "string", s |-> s]
JsonNumber(n) == [t |-> "number", n |-> n]
JsonObject(error, message) == [t |-> "object", error |-> error, message |-> message]
\* json.error, json.message: the property, undefined when the object lacks it;
\* of null, a TypeError
HasProperties(json) == json # Null
Property(json, name) ==
    IF json.t = "object" THEN json[name] ELSE Undefined

Bodies ==
    { Str(""), Str("plain-text failure"),
      JsonText(JsonObject(JsonString("invalid payload"), JsonString("details"))),
      JsonText(JsonObject(JsonString("invalid payload"), Undefined)),
      JsonText(JsonObject(Undefined, JsonString("details"))),
      JsonText(JsonObject(JsonNumber(42), JsonString("details"))),
      JsonText(JsonObject(JsonString(""), JsonString("details"))),
      JsonText(JsonObject(Undefined, Undefined)),
      JsonText(JsonString("invalid payload")),
      JsonText(Null) }

\* errors.ts, lines 35-45
HttpValidationError(message, url, statusCode) ==
    [kind |-> "Error", cls |-> "HttpValidationError", message |-> message,
     url |-> url, statusCode |-> statusCode]

\* a || b, of strings
OrElse(a, b) == IF a = Str("") THEN b ELSE a

\* part_006, lines 3-16
readErrorBody(text) ==
    IF text = Str("") THEN Str("")
    ELSE IF ~JsonParse(text).ok THEN text
    ELSE LET json == JsonParse(text).value
         IN  IF ~HasProperties(json) THEN text
             ELSE LET msg == IF Property(json, "error").t = "string"
                             THEN Str(Property(json, "error").s)
                             ELSE IF Property(json, "message").t = "string"
                             THEN Str(Property(json, "message").s)
                             ELSE Null
                  IN  Nullish(msg, text)

\* Response.ok
ResponseOk(status) == status >= 200 /\ status <= 299

\* part_006, lines 18-32, once fetch has resolved
runHttpValidator(resp) ==
    IF ResponseOk(resp.status) THEN Returned(Undefined)
    ELSE Thrown(HttpValidationError(
             OrElse(readErrorBody(resp.body), Template("Validator returned ", resp.status)),
             Url, resp.status))

HttpInit ==
    /\ NoExtraction
    /\ keyRequest = NoKey /\ keyClock = 0 /\ keyFirst = NoKey /\ keySecond = NoKey
    /\ besidesHttpAtRest
    /\ httpResponse = NoResponse
    /\ validation = Pending

httpFrame == <<extraction, keyVars, besidesHttp>>

\* part_006, lines 19-24: fetch resolves with the validator's response
FetchResolves ==
    /\ httpResponse = NoResponse
    /\ \E status \in Statuses : \E body \in Bodies :
          httpResponse' = [t |-> "response", status |-> status, body |-> body]
    /\ UNCHANGED <<validation, httpFrame>>

\* part_006, lines 26-31
HttpValidatorEnds ==
    /\ httpResponse # NoResponse
    /\ validation = Pending
    /\ validation' = runHttpValidator(httpResponse)
    /\ UNCHANGED <<httpResponse, httpFrame>>

HttpNext ==
    \/ FetchResolves
    \/ HttpValidatorEnds

HttpSpec == HttpInit /\ [][HttpNext]_vars


\* ------------------------------------------- wrapping of a non-object shape
\* A provider that requires an object-rooted tool schema is given the shape
\* wrapped as { value: shape } (normalize.ts, lines 183-198).  The shape here
\* is one that is not an object schema and accepts every JSON value
\* (Type.Any(), Type.Unknown(), a union with an object member).
Arr(p) == [t |-> "array", p |-> p]
PlainValues ==
    { Prim("null"), Prim("a"), Prim("0"), Obj("a"), Obj("b"), Arr("empty"), Arr("a") }
ValuesWithValueField == { ObjV(x, rest) : x \in PlainValues, rest \in {"none", "unit"} }
NestedValues == { ObjV(x, "none") : x \in ValuesWithValueField }
WrapValues == PlainValues \cup ValuesWithValueField \cup NestedValues

\* { [unwrapKey]: v }
Wrap(v) == ObjV(v, "none")

\* validateToolArguments against the wrapped schema: an object with the
\* required property "value" and no other (additionalProperties: false)
ValidatesAgainstWrapped(normalizedArgs) ==
    normalizedArgs.t = "objv" /\ normalizedArgs.rest = "none"

\* lines 212-239 for the wrapped shape: the data handed to the validators,
\* or the schema layer's error
SchemaLayerWrapped(args) ==
    LET normalizedArgs == normalizeToolArguments(args, UnwrapKeyValue)
    IN  IF ValidatesAgainstWrapped(normalizedArgs)
        THEN unwrapToolArguments(normalizedArgs, UnwrapKeyValue)
        ELSE [ok |-> FALSE, error |-> SCHEMA_ERROR]

WrapInit ==
    /\ NoExtraction
    /\ keyRequest = NoKey /\ keyClock = 0 /\ keyFirst = NoKey /\ keySecond = NoKey
    /\ besidesWrapAtRest
    /\ \E v \in WrapValues : \E form \in {"bare", "wrapped"} :
          toolArguments = [value |-> v, form |-> form, arguments |-> NotYet, handed |-> NotYet]

wrapFrame == <<extraction, keyVars, besidesWrap>>

\* the model answers with the value, bare or already wrapped
ModelReturns ==
    /\ toolArguments.arguments = NotYet
    /\ toolArguments' =
          [toolArguments EXCEPT
              !.arguments = IF toolArguments.form = "bare" THEN toolArguments.value
                            ELSE Wrap(toolArguments.value)]
    /\ UNCHANGED wrapFrame

\* lines 212-224: the schema layer normalizes, validates and unwraps
SchemaLayerRuns ==
    /\ toolArguments.arguments # NotYet
    /\ toolArguments.handed = NotYet
    /\ toolArguments' = [toolArguments EXCEPT !.handed = SchemaLayerWrapped(toolArguments.arguments)]
    /\ UNCHANGED wrapFrame

WrapNext ==
    \/ ModelReturns
    \/ SchemaLayerRuns

WrapSpec == WrapInit /\ [][WrapNext]_vars


\* ------------------------------------------------- resolveRefs (normalize.ts)
\* the call stack holds at most MaxStack frames of resolveNode
MaxStack == 6

\* A schema node: a leaf, a reference { $ref: "#/$defs/<name>" }, or an object
\* (or array) whose entries are nodes.
Leaf == [t |-> "leaf"]
Ref(name) == [t |-> "ref", ref |-> name]
Object(props) == [t |-> "object", props |-> props]

DefNames == {"A", "B"}
\* "C" names no definition
DefBodies ==
    { Leaf, Ref("A"), Ref("B"), Object(<<Ref("A")>>), Object(<<Ref("B")>>),
      Object(<<Ref("A"), Ref("B")>>), Object(<<Leaf, Ref("C")>>) }
Roots ==
    { Ref("A"), Object(<<Ref("A")>>), Object(<<Ref("A"), Ref("B")>>),
      Object(<<Ref("B"), Ref("A")>>), Object(<<Ref("C"), Ref("B")>>) }
\* root.$defs ?? root.definitions: the definitions, or undefined
Schemas ==
    [root : Roots, defs : [DefNames -> DefBodies]]
    \cup [root : Roots, defs : {Undefined}]

\* normalize.ts, lines 102-113: the definition a reference names, or undefined
resolveRef(ref, defs) ==
    IF defs = Undefined THEN Undefined
    ELSE IF ref \in DOMAIN defs THEN defs[ref] ELSE Undefined

ResolvingHasMutant(resolving, ref) == FALSE

\* line 78, resolving.has(ref)
ResolvingHas(resolving, ref) == ref \in resolving

Call(node) == [mode |-> "call", node |-> node]
Return(value) == [mode |-> "return", value |-> value]

RefInit ==
    /\ NoExtraction
    /\ keyRequest = NoKey /\ keyClock = 0 /\ keyFirst = NoKey /\ keySecond = NoKey
    /\ besidesRefsAtRest
    /\ \E schema \in Schemas :
          resolver = [root |-> schema.root, defs |-> schema.defs,
                      seen |-> [n \in {} |-> Leaf], resolving |-> {},
                      stack |-> <<>>, control |-> Call(schema.root)]

refFrame == <<extraction, keyVars, besidesRefs>>

\* a recursive call of resolveNode; past MaxStack frames it is a RangeError
Push(frame, node) ==
    IF Len(resolver.stack) >= MaxStack
    THEN [resolver EXCEPT !.control = [mode |-> "overflow"]]
    ELSE [resolver EXCEPT !.stack = Append(@, frame), !.control = Call(node)]

\* lines 62-97: resolveNode is entered with a node and runs to its first
\* recursive call, or returns
ResolveNode ==
    /\ resolver.control.mode = "call"
    /\ LET node == resolver.control.node
           target == IF node.t = "ref" THEN resolveRef(node.ref, resolver.defs) ELSE Undefined
       IN  resolver' =
             IF node.t = "leaf" THEN [resolver EXCEPT !.control = Return(node)]
             ELSE IF node.t = "ref" /\ target # Undefined
             THEN IF node.ref \in DOMAIN resolver.seen
                  THEN [resolver EXCEPT !.control = Return(resolver.seen[node.ref])]
                  ELSE IF ResolvingHas(resolver.resolving, node.ref)
                  THEN [resolver EXCEPT !.control = Return(node)]
                  ELSE [Push([kind |-> "ref", ref |-> node.ref], target)
                            EXCEPT !.resolving = @ \cup {node.ref}]
             ELSE IF node.t = "ref" THEN [resolver EXCEPT !.control = Return(node)]
             ELSE IF node.props = <<>> THEN [resolver EXCEPT !.control = Return(node)]
             ELSE Push([kind |-> "object", node |-> node, done |-> <<>>], node.props[1])
    /\ UNCHANGED refFrame

\* a recursive call returns into its caller: lines 83-85 for a reference,
\* lines 90-96 for the entries of an object
ResolveReturns ==
    /\ resolver.control.mode = "return"
    /\ resolver.stack # <<>>
    /\ LET frame == resolver.stack[Len(resolver.stack)]
           popped == SubSeq(resolver.stack, 1, Len(resolver.stack) - 1)
           value == resolver.control.value
       IN  resolver' =
             IF frame.kind = "ref"
             THEN [resolver EXCEPT
                      !.resolving = @ \ {frame.ref},
                      !.seen = [n \in DOMAIN @ \cup {frame.ref} |->
                                   IF n = frame.ref THEN value ELSE @[n]],
                      !.stack = popped,
                      !.control = Return(value)]
             ELSE LET done == Append(frame.done, value)
                  IN  IF Len(done) < Len(frame.node.props)
                      THEN [resolver EXCEPT
                               !.stack = Append(popped, [frame EXCEPT !.done = done]),
                               !.control = Call(frame.node.props[Len(done) + 1])]
                      ELSE [resolver EXCEPT !.stack = popped, !.control = Return(Object(done))]
    /\ UNCHANGED refFrame

\* line 99: resolveRefs returns the resolved root
ResolveRefsReturns ==
    /\ resolver.control.mode = "return"
    /\ resolver.stack = <<>>
    /\ resolver' = [resolver EXCEPT !.control = [mode |-> "done", value |-> resolver.control.value]]
    /\ UNCHANGED refFrame

RefNext ==
    \/ ResolveNode
    \/ ResolveReturns
    \/ ResolveRefsReturns

\* the call runs on: a step that can be taken is taken
RefSpec == RefInit /\ [][RefNext]_vars /\ WF_vars(RefNext)


\* --------------------------------------- normalizeToolSchema (normalize.ts)
\* an anyOf of a shape lists 1..MaxAlternatives alternatives
MaxAlternatives == 2

PROVIDERS_WITH_SCHEMA_CONSTRAINTS == {"google-antigravity", "google-gemini-cli"}
PROVIDERS_REQUIRING_OBJECT_SCHEMA == {"google-antigravity", "google-gemini-cli", "openai-codex"}
Providers == PROVIDERS_REQUIRING_OBJECT_SCHEMA \cup {"anthropic"}

\* A schema node with the keywords the normalizer looks at.  A keyword that is
\* absent is "none" (type), Undefined (const), <<>> (enum, anyOf, properties)
\* or FALSE (examples, $defs).
SchemaNode(type, const, anyOf, properties, examples, defs) ==
    [type |-> type, const |-> const, enum |-> <<>>, anyOf |-> anyOf,
     properties |-> properties, examples |-> examples, defs |-> defs]

\* { const: c } and { const: c, type: ... }, as a hand-written shape and as
\* Type.Literal(c) give them, and a schema that is no constant
Alternatives ==
    { SchemaNode(type, c, <<>>, <<>>, FALSE, FALSE) :
        c \in {Str("a"), Str("b")}, type \in {"string", "none"} }
    \cup { SchemaNode(type, Num(1), <<>>, <<>>, FALSE, FALSE) : type \in {"number", "none"} }
    \cup { SchemaNode("string", Undefined, <<>>, <<>>, FALSE, FALSE) }

AlternativeLists == UNION { [1..n -> Alternatives] : n \in 1..MaxAlternatives }

\* a union, with or without a type and examples of its own
Unions ==
    { SchemaNode(type, Undefined, anyOf, <<>>, examples, FALSE) :
        type \in {"string", "none"}, anyOf \in AlternativeLists, examples \in BOOLEAN }

\* the caller's shape: a union, or an object with one property that is a union
Shapes ==
    Unions
    \cup { SchemaNode(type, Undefined, <<>>, <<u>>, FALSE, defs) :
             type \in {"object", "none"}, u \in Unions, defs \in BOOLEAN }

\* An object of the heap: which object it is, and its value.
Heap(obj, value) == [obj |-> obj, value |-> value]

RECURSIVE CopyWithoutDefs(_)
\* lines 89-96, for a shape without $ref: a copy without $defs/definitions
CopyWithoutDefs(node) ==
    [node EXCEPT !.defs = FALSE,
                 !.anyOf = [i \in DOMAIN @ |-> CopyWithoutDefs(@[i])],
                 !.properties = [i \in DOMAIN @ |-> CopyWithoutDefs(@[i])]]

\* lines 212-214
isConstSchema(node) == node.const # Undefined

\* lines 216-228: the distinct string types of the items
collectEnumTypes(items) == { items[i].type : i \in DOMAIN items } \ {"none"}

RECURSIVE normalizeLiterals(_)
\* lines 115-162
normalizeLiterals(node) ==
    LET rest == [node EXCEPT !.properties = [i \in DOMAIN @ |-> normalizeLiterals(@[i])]]
    IN  IF node.anyOf # <<>> /\ \A i \in DOMAIN node.anyOf : isConstSchema(node.anyOf[i])
        THEN LET types == collectEnumTypes(node.anyOf)
             IN  [rest EXCEPT
                     !.anyOf = <<>>,
                     !.enum = [i \in DOMAIN node.anyOf |-> node.anyOf[i].const],
                     !.type = IF Cardinality(types) = 1 THEN CHOOSE t \in types : TRUE
                              ELSE IF Cardinality(types) = 0 THEN "none"
                              ELSE @]
        ELSE IF node.const # Undefined
        THEN [rest EXCEPT !.const = Undefined, !.enum = <<node.const>>,
                          !.anyOf = [i \in DOMAIN @ |-> normalizeLiterals(@[i])]]
        ELSE [rest EXCEPT !.anyOf = [i \in DOMAIN @ |-> normalizeLiterals(@[i])]]

RECURSIVE stripUnsupportedKeywords(_)
\* lines 164-181
stripUnsupportedKeywords(node) ==
    [node EXCEPT !.examples = FALSE,
                 !.anyOf = [i \in DOMAIN @ |-> stripUnsupportedKeywords(@[i])],
                 !.properties = [i \in DOMAIN @ |-> stripUnsupportedKeywords(@[i])]]

wrapNonObjectSchemaMutant(schema) ==
    [schema |-> [obj |-> "wrapped", value |-> schema.value], unwrapKey |-> Null]

\* lines 200-210
isObjectSchema(node) == node.type = "object" \/ node.properties # <<>>

\* lines 183-198
wrapNonObjectSchema(schema) ==
    IF isObjectSchema(schema.value) THEN [schema |-> schema, unwrapKey |-> Null]
    ELSE [schema |-> Heap("wrapped", SchemaNode("object", Undefined, <<>>, <<schema.value>>, FALSE, FALSE)),
          unwrapKey |-> UnwrapKeyValue]

NormalizeInit ==
    /\ NoExtraction
    /\ keyRequest = NoKey /\ keyClock = 0 /\ keyFirst = NoKey /\ keySecond = NoKey
    /\ besidesNormalizeAtRest
    /\ \E provider \in Providers, shape \in Shapes :
          normalization = [provider |-> provider, schema |-> Heap("caller", shape),
                           normalizedSchema |-> Heap("caller", shape),
                           at |-> "entry", result |-> NotYet]

normalizeFrame == <<extraction, keyVars, besidesNormalize>>

\* lines 30-35: the passes for a provider with schema constraints
ConstrainedPasses ==
    /\ normalization.at = "entry"
    /\ normalization.provider \in PROVIDERS_WITH_SCHEMA_CONSTRAINTS
    /\ LET cloned == normalization.schema.value
           withoutRefs == CopyWithoutDefs(cloned)
           normalized == normalizeLiterals(withoutRefs)
       IN  normalization' =
             [normalization EXCEPT
                 !.normalizedSchema = Heap("normalized", stripUnsupportedKeywords(normalized)),
                 !.at = "normalized"]
    /\ UNCHANGED normalizeFrame

\* lines 37-41
NormalizeReturns ==
    /\ \/ normalization.at = "normalized"
       \/ /\ normalization.at = "entry"
          /\ normalization.provider \notin PROVIDERS_WITH_SCHEMA_CONSTRAINTS
    /\ normalization' =
          [normalization EXCEPT
              !.at = "returned",
              !.result =
                  IF normalization.provider \notin PROVIDERS_REQUIRING_OBJECT_SCHEMA
                  THEN [schema |-> normalization.normalizedSchema, unwrapKey |-> Null]
                  ELSE wrapNonObjectSchema(normalization.normalizedSchema)]
    /\ UNCHANGED normalizeFrame

NormalizeNext ==
    \/ ConstrainedPasses
    \/ NormalizeReturns

NormalizeSpec == NormalizeInit /\ [][NormalizeNext]_vars


\* ------------------------------------------------------ warmCache (warm.ts)
\* options.cache as the caller wrote it: absent, true, { store }, or the store
\* with revalidate: true or revalidate: false
RawCaches == {"undefined", "true", "store", "revalidate", "norevalidate"}

\* what resolveCache (part_009 l.285-292) makes of it
CacheOption(raw) ==
    IF raw = "undefined" THEN "off"
    ELSE IF raw = "revalidate" THEN "revalidate"
    ELSE "on"

\* warm.ts, lines 5-22
normalizeCache(raw, options) ==
    LET hasFunctionValidators == {"sync", "async"} \cap options.validators # {}
    IN  IF raw \in {"undefined", "true"}
        THEN IF hasFunctionValidators THEN "revalidate" ELSE "true"
        ELSE IF hasFunctionValidators /\ raw = "store" THEN "revalidate"
        ELSE raw

\* the caller's options
WarmOptions ==
    { c \in Configs :
        /\ c.input = TextInput /\ c.hasModel /\ c.hasStreamFn /\ c.maxTurns = 1
        /\ c.unwrapKey = Null /\ ~c.thinkingUnsupported /\ c.cache = "off" }

WarmInit ==
    /\ \E c \in WarmOptions, raw \in RawCaches :
          /\ raw \in {"undefined", "true"} => c.ttl = NoTtl
          /\ cfg = [c EXCEPT !.cache = CacheOption(raw)]
          /\ warm = [raw |-> raw, phase |-> "idle", faults |-> {}]
    /\ callerInput = TextInput
    /\ now = 0 /\ store = NoEntry
    /\ aborted = FALSE /\ abortReason = NoError /\ abortedAt = NoAbort
    /\ pc = "idle" /\ turn = 0 /\ layerIdx = 1
    /\ events = <<>> /\ messages = <<>> /\ calls = <<>>
    /\ totalUsage = ZeroUsage /\ lastError = NoError
    /\ assistant = Null /\ jsonSource = "null" /\ data = Null /\ entry = NoEntry
    /\ settled = Pending
    /\ replies = <<>> /\ verdicts = <<>>
    /\ invocation = 1 /\ previous = NoPrevious /\ faults = {}
    /\ keyRequest = NoKey /\ keyClock = 0 /\ keyFirst = NoKey /\ keySecond = NoKey
    /\ besidesWarmAtRest

\* warm.ts, lines 24-29: warmCache calls extractSync with the warmed options
WarmCache ==
    /\ warm.phase = "idle"
    /\ pc = "idle"
    /\ cfg' = [cfg EXCEPT !.cache = CacheOption(normalizeCache(warm.raw, cfg))]
    /\ pc' = "init"
    /\ warm' = [warm EXCEPT !.phase = "warming"]
    /\ UNCHANGED <<callerInput, now, store, aborted, abortReason, abortedAt, turn, layerIdx,
                   events, messages, calls, totalUsage, lastError, assistant, jsonSource,
                   data, entry, settled, replies, verdicts, invocation, previous, faults,
                   keyVars, besidesWarm>>

\* warm.ts, lines 29-31: extractSync returned, or threw and warmCache rejects;
\* warm.faults keeps the store operations that failed meanwhile
WarmCacheEnds ==
    /\ warm.phase = "warming"
    /\ pc \in {"done", "failed"}
    /\ warm' = [warm EXCEPT !.phase = IF settled.state = "fulfilled" THEN "warmed" ELSE "rejected",
                            !.faults = faults]
    /\ UNCHANGED <<extraction, keyVars, besidesWarm>>

\* the caller extracts the same input with the options it gave warmCache,
\* before the entry's TTL has passed; its signal may be aborted already
LaterExtract ==
    /\ warm.phase = "warmed"
    /\ warm' = [warm EXCEPT !.phase = "later"]
    /\ cfg' = [cfg EXCEPT !.cache = CacheOption(warm.raw)]
    /\ invocation' = 2
    /\ previous' = [result |-> settled.result]
    /\ now' \in {now, now + 1}
    /\ aborted' \in BOOLEAN
    /\ abortReason' = (IF aborted' THEN AbortError("Extraction aborted") ELSE NoError)
    /\ abortedAt' = (IF aborted' THEN [pc |-> "init", turn |-> 0] ELSE NoAbort)
    /\ pc' = "init"
    /\ turn' = 0
    /\ layerIdx' = 1
    /\ events' = <<>>
    /\ messages' = <<>>
    /\ calls' = <<>>
    /\ totalUsage' = ZeroUsage
    /\ lastError' = NoError
    /\ assistant' = Null
    /\ jsonSource' = "null"
    /\ data' = Null
    /\ entry' = NoEntry
    /\ settled' = Pending
    /\ replies' = <<>>
    /\ verdicts' = <<>>
    /\ faults' = {}
    /\ UNCHANGED <<callerInput, store, keyVars, besidesWarm>>

WarmNext ==
    \/ WarmCache
    \/ WarmCacheEnds
    \/ LaterExtract
    \/ Next

WarmSpec == WarmInit /\ [][WarmNext]_vars


\* ------------------------------------------- the CLI's exit code (main.ts)
mapExtractionExitCodeMutant(error) == 3

\* main.ts, lines 641-647
mapExtractionExitCode(error) ==
    IF error.kind = "Error" /\ error.cls = "MaxTurnsError" THEN 1 ELSE 3

\* main.ts, lines 380-428: the loop over the stream has ended with the
\* terminal event; the result is written (the output file may fail) and the
\* exit code is returned
CliReturns ==
    /\ cli = NoCli
    /\ events # <<>>
    /\ IsTerminalEvent(events[Len(events)])
    /\ \E writeFails \in BOOLEAN :
          LET last == events[Len(events)]
          IN  cli' = [exit |-> "returned",
                      code |-> IF last.type = "error" THEN mapExtractionExitCode(last.error)
                               ELSE IF writeFails THEN 4
                               ELSE 0]
    /\ UNCHANGED <<extraction, keyVars, storeVars, racers, validatorVars, schemaVars, warm>>

CliNext ==
    \/ Next
    \/ CliReturns

CliSpec == Init /\ [][CliNext]_vars


\* ------------------------------------------------------------- what is claimed
Terminated == pc \in {"done", "failed"}
Last(seq) == seq[Len(seq)]
Range(seq) == {seq[i] : i \in 1..Len(seq)}

NoLlmFailure == \A i \in 1..Len(replies) : replies[i].ok

\* the candidate a reply carries: the respond tool call's arguments, else the
\* JSON of its text
RespondCall(m) == m.toolCall # NoToolCall /\ m.toolCall.name = RESPOND_TOOL_NAME
CandidateArgs(m) == IF RespondCall(m) THEN m.toolCall.arguments ELSE m.textJson
\* the value the model meant: the bare value, or the one it wrapped itself
CandidateValue(m) ==
    IF cfg.unwrapKey # Null /\ CandidateArgs(m).t = "objv"
    THEN CandidateArgs(m).inner ELSE CandidateArgs(m)

TurnVerdicts(k) == {i \in 1..Len(verdicts) : verdicts[i].turn = k}
TurnFailed(k) == \E i \in TurnVerdicts(k) : verdicts[i].outcome # PassOutcome
FailureOf(k) ==
    verdicts[CHOOSE i \in TurnVerdicts(k) : verdicts[i].outcome # PassOutcome].outcome
\* turn k's candidate passed the schema layer and every configured layer
TurnPassed(k) ==
    /\ k \in 1..Len(replies)
    /\ {verdicts[i].layer : i \in TurnVerdicts(k)} = {"schema"} \cup cfg.validators
    /\ ~TurnFailed(k)

NumTurnStarts(evs) == Cardinality({i \in 1..Len(evs) : evs[i].type = "turn_start"})

\* C1: without cancellation and without a Generation Service failure, when
\* turn k is the first turn whose candidate passes the schema layer and every
\* configured validator, the extraction completes with turns = k and data =
\* turn k's candidate, after exactly k Generation Service calls.
C1_FirstPassingTurnCompletes ==
    (Terminated /\ ~aborted /\ NoLlmFailure) =>
        \A k \in 1..cfg.maxTurns :
            (TurnPassed(k) /\ \A j \in 1..(k - 1) : ~TurnPassed(j)) =>
                /\ settled.state = "fulfilled"
                /\ settled.result.turns = k
                /\ settled.result.data = CandidateValue(replies[k].message)
                /\ Len(calls) = k
                /\ Len(replies) = k
                /\ Last(events).type = "complete"
                /\ Last(events).turns = k
                /\ Last(events).result = CandidateValue(replies[k].message)

C1_Witness ==
    /\ pc = "done" /\ ~aborted
    /\ turn = 2 /\ TurnFailed(1) /\ TurnPassed(2)

\* the thrown value o, as the Error object the loop keeps for it
Represents(le, o) ==
    IF o.kind = "Error" THEN le = o
    ELSE le.kind = "Error" /\ (o.kind = "string" => le.message = o.str)

FailedVerdicts == {i \in 1..Len(verdicts) : verdicts[i].turn >= 1 /\ verdicts[i].outcome # PassOutcome}
MostRecentFailure == verdicts[CHOOSE i \in FailedVerdicts : \A j \in FailedVerdicts : j <= i].outcome

\* C2: without cancellation or Generation Service failure, when none of the
\* maxTurns turns passes all validation the extraction fails with a
\* MaxTurnsError whose turns is maxTurns and whose lastError is the most recent
\* schema/validator error of a turn (absent when no turn reached validation);
\* the terminal error event carries turns = maxTurns.
C2_ExhaustedIsMaxTurnsError ==
    (/\ Terminated /\ ~aborted /\ NoLlmFailure
     /\ Len(replies) = cfg.maxTurns
     /\ \A k \in 1..cfg.maxTurns : ~TurnPassed(k)) =>
        /\ settled.state = "rejected"
        /\ settled.error.cls = "MaxTurnsError"
        /\ settled.error.turns = cfg.maxTurns
        /\ IF FailedVerdicts = {} THEN settled.error.lastError = NoError
           ELSE Represents(settled.error.lastError, MostRecentFailure)
        /\ Last(events) = ErrorEvent(settled.error, cfg.maxTurns)

C2_Witness ==
    /\ pc = "failed" /\ ~aborted
    /\ settled.error.cls = "MaxTurnsError"
    /\ settled.error.lastError # NoError
    /\ Len(replies) = cfg.maxTurns

\* C3: for a request with a model and a generation capability, once the token
\* was signaled - before the start, or during a turn while the Generation
\* Service call or a validator is in flight - the extraction ends in an
\* AbortError, never in complete, a MaxTurnsError or another error kind.
C3_SignaledEndsInAbortError ==
    (/\ Terminated /\ aborted
     /\ cfg.hasModel /\ cfg.hasStreamFn
     /\ abortedAt.pc \in {"init", "llm", "val_wait"}) =>
        /\ settled.state = "rejected"
        /\ settled.error.cls = "AbortError"

\* C4: once the token is signaled no further turn begins: no turn_start is
\* pushed and the Generation Service is not called again.
C4_NoTurnAfterSignal ==
    [][aborted => (NumTurnStarts(events') = NumTurnStarts(events) /\ calls' = calls)]_vars

C4_Witness ==
    /\ pc = "failed" /\ aborted /\ abortedAt.pc # "init"
    /\ settled.error.cls = "AbortError"
    /\ Len(calls) >= 1 /\ Len(calls) < cfg.maxTurns

\* at most one terminal event, and nothing pushed after it
TerminalEventIsLast == \A i \in 1..(Len(events) - 1) : ~IsTerminalEvent(events[i])

\* C5: at most one terminal event is pushed and nothing after it; a failure
\* is reported by exactly one error event, a success by one complete event.
C5_OneTerminalEvent ==
    /\ TerminalEventIsLast
    /\ settled.state = "rejected" =>
          (Len(events) >= 1 /\ Last(events).type = "error")
    /\ settled.state = "fulfilled" =>
          (Len(events) >= 1 /\ Last(events).type = "complete")

\* C6: every extraction that has run to its end has pushed a terminal event,
\* so that result() resolves: with the payload after complete, with nothing
\* after error - also when the cache store or the key function throws.
C6_EndsWithTerminalEvent ==
    Terminated =>
        /\ Len(events) >= 1
        /\ IsTerminalEvent(Last(events))
        /\ settled.state = "fulfilled" => StreamResult(Last(events)) = settled.result
        /\ settled.state = "rejected" => StreamResult(Last(events)) = [t |-> "undefined"]


RECURSIVE SumReported(_, _)
\* the sum, over the first k replies, of one component of the reported usage
SumReported(k, component) ==
    IF k = 0 THEN 0 ELSE replies[k].message.usage[component] + SumReported(k - 1, component)

UsageOfTurns(k) ==
    [inputTokens |-> SumReported(k, "input"), outputTokens |-> SumReported(k, "output"),
     totalTokens |-> SumReported(k, "totalTokens"), cost |-> SumReported(k, "costTotal")]

CacheWritten == \E i \in 1..Len(events) : events[i].type = "cache_set"

\* C7: when an extraction completes at turn k through a model turn, every
\* component of the result's usage is the sum of what the Generation Service
\* reported for turns 1..k; the complete event and the stored cache entry
\* carry the same sums.
C7_UsageIsCumulative ==
    (pc = "done" /\ turn >= 1) =>
        /\ settled.result.usage = UsageOfTurns(turn)
        /\ Last(events).usage = UsageOfTurns(turn)
        /\ CacheWritten => store.usage = UsageOfTurns(turn)

C7_Witness ==
    /\ pc = "done" /\ turn >= 2
    /\ CacheWritten
    /\ replies[1].message.usage # replies[2].message.usage

\* C8: after a validation failure on turn k the conversation of turn k+1 is
\* that of turn k, then turn k's assistant message, then exactly one feedback
\* message holding the failure's exact error text: a tool result bound to the
\* tool call's id for a tool-call candidate, a plain user message otherwise.
C8_FeedbackCarriesErrorText ==
    \A k \in 1..(Len(calls) - 1) :
        TurnFailed(k) =>
            LET before == calls[k].messages
                after == calls[k + 1].messages
                m == replies[k].message
            IN  /\ Len(after) = Len(before) + 2
                /\ SubSeq(after, 1, Len(before)) = before
                /\ after[Len(before) + 1] = m
                /\ FailText(FailureOf(k)) \in Range(after[Len(before) + 2].content)
                /\ IF RespondCall(m)
                   THEN /\ after[Len(before) + 2].role = "toolResult"
                        /\ after[Len(before) + 2].toolCallId = m.toolCall.id
                   ELSE after[Len(before) + 2].role = "user"

\* e is the thrown value o itself, or the plain Error standing for it
IsRawError(e, o) == IF o.kind = "Error" THEN e = o ELSE e.cls = "Error"

\* C9 as stated: a schema or validator failure on turn k is never the
\* terminal error; if k < maxTurns turn k+1 begins, if k = maxTurns the
\* terminal error is a MaxTurnsError.
C9_FailureAlwaysRetries ==
    \A k \in 1..Len(replies) :
        TurnFailed(k) =>
            /\ k < cfg.maxTurns => Len(calls) >= k + 1
            /\ k = cfg.maxTurns =>
                  (pc = "failed" /\ settled.error.cls = "MaxTurnsError"
                   /\ Represents(settled.error.lastError, FailureOf(k)))
            /\ settled.state = "rejected" => ~IsRawError(settled.error, FailureOf(k))

\* C9 amended: a schema or validator failure on turn k is never the terminal
\* error; if k < maxTurns turn k+1 begins, unless the token has been signaled,
\* and then the extraction ends in an AbortError with turns = k; if
\* k = maxTurns the terminal error is a MaxTurnsError that carries the raw
\* error as lastError.
C9_FailureRetriesUnlessSignaled ==
    \A k \in 1..Len(replies) :
        TurnFailed(k) =>
            /\ k < cfg.maxTurns =>
                  \/ Len(calls) >= k + 1
                  \/ /\ aborted
                     /\ pc = "failed"
                     /\ settled.error.cls = "AbortError"
                     /\ Last(events) = ErrorEvent(settled.error, k)
            /\ k = cfg.maxTurns =>
                  (pc = "failed" /\ settled.error.cls = "MaxTurnsError"
                   /\ Represents(settled.error.lastError, FailureOf(k)))
            /\ settled.state = "rejected" => ~IsRawError(settled.error, FailureOf(k))

C9_Witness ==
    /\ TurnFailed(1) /\ cfg.maxTurns > 1
    /\ aborted /\ pc = "failed" /\ Len(calls) = 1

\* C10: when the Generation Service fails on turn k the extraction ends at
\* once with one terminal error with turns = k that is no MaxTurnsError; no
\* further call, validator run, turn_start or cache write follows.
C10_LlmFailureIsTerminal ==
    \A k \in 1..Len(replies) :
        ~replies[k].ok =>
            /\ k = Len(replies) /\ k = Len(calls) /\ NumTurnStarts(events) = k
            /\ pc = "failed"
            /\ settled.error.cls # "MaxTurnsError"
            /\ settled.error =
                  (IF replies[k].failure.via = "payload" THEN createLlmError
                   ELSE replies[k].failure.thrown)
            /\ Last(events) = ErrorEvent(settled.error, k)
            /\ TerminalEventIsLast
            /\ \A i \in 1..Len(verdicts) : verdicts[i].turn < k
            /\ ~CacheWritten /\ store \in {NoEntry, CachedEntry}

C10_Witness ==
    /\ pc = "failed"
    /\ Len(replies) = 2 /\ ~replies[2].ok /\ TurnFailed(1)

\* ------------------------------------------------------ the validation pipeline
IsPipelineEvent(e) ==
    e.type \in {"validation_start", "validation_pass", "validation_error"} /\ e.layer # "schema"
IsPipelineVerdict(v) == v.layer # "schema"
PipelineEvents == SelectSeq(events, IsPipelineEvent)
PipelineVerdicts == SelectSeq(verdicts, IsPipelineVerdict)

\* the layers present in the request, in the pipeline's order
IsConfigured(layer) == layer \in cfg.validators
ConfiguredLayers == SelectSeq(LayerOrder, IsConfigured)

RECURSIVE EventsOfVerdicts(_)
\* the events the settled layers have to have emitted: start, then pass or error
EventsOfVerdicts(vs) ==
    IF vs = <<>> THEN <<>>
    ELSE <<ValidationStart(vs[1].layer),
           IF vs[1].outcome = PassOutcome THEN ValidationPass(vs[1].layer)
           ELSE ValidationError(vs[1].layer, FailText(vs[1].outcome))>>
         \o EventsOfVerdicts(Tail(vs))

\* the pipeline verdicts of the run of turn t (0: the revalidation of a cached entry)
RunVerdicts(t) == LET ofRun(v) == v.turn = t IN SelectSeq(PipelineVerdicts, ofRun)

\* C11: one run of the pipeline attempts the configured layers in the order
\* sync, async, command, http and skips the others; every attempted layer
\* emits validation_start and then exactly one of validation_pass and
\* validation_error before the next layer is touched; the first failing layer
\* ends the run: no later layer is attempted and the run does not return.
C11_PipelineOrderAndStop ==
    LET pipeline == PipelineVerdicts
        configured == ConfiguredLayers
    IN  /\ PipelineEvents =
              EventsOfVerdicts(pipeline)
              \o (IF pc = "val_wait" THEN <<ValidationStart(LayerOrder[layerIdx])>> ELSE <<>>)
        /\ \A t \in 0..cfg.maxTurns :
              LET run == SelectSeq(pipeline, LAMBDA v : v.turn = t)
              IN  /\ Len(run) <= Len(configured)
                  /\ \A i \in 1..Len(run) :
                        /\ run[i].layer = configured[i]
                        /\ run[i].outcome # PassOutcome => i = Len(run)
                  /\ (run # <<>> /\ Last(run).outcome # PassOutcome) =>
                        /\ \A j \in 1..Len(events) : events[j] # TurnEnd(t, TRUE)
                        /\ ~(pc \in {"val_next", "val_wait"} /\ turn = t)

C11_Witness ==
    /\ Len(ConfiguredLayers) = 2
    /\ Len(RunVerdicts(1)) = 1
    /\ RunVerdicts(1)[1].outcome # PassOutcome
    /\ Len(RunVerdicts(2)) = 2
    /\ RunVerdicts(2)[1].outcome = PassOutcome
    /\ RunVerdicts(2)[2].outcome # PassOutcome

\* --------------------------------------------------------------------- the cache
\* the entry read from the store is within the TTL, or no TTL is configured
WithinTtl(e) == cfg.ttl = NoTtl \/ now - e.timestamp <= cfg.ttl.n
\* cacheStore.get answered with an entry that is within the TTL
HitWithinTtl == entry # NoEntry /\ WithinTtl(entry)
EventTypes == [i \in 1..Len(events) |-> events[i].type]
NoModelTurn ==
    /\ calls = <<>> /\ replies = <<>>
    /\ \A i \in 1..Len(events) : events[i].type \notin {"turn_start", "llm_start"}
\* the extraction answered with the cached entry: cache_hit, then complete
AnsweredFromCache(e) ==
    /\ pc = "done"
    /\ settled = Returned(ExtractResult(e.data, e.turns, e.usage))
    /\ Len(events) >= 2
    /\ events[Len(events) - 1].type = "cache_hit"
    /\ Last(events) = CompleteEvent(e.data, e.turns, e.usage)

\* C12: with caching active and no validators configured, a hit within the
\* TTL returns the cached result at once: cache_hit, then complete, with the
\* entry's data, turns and usage, and the Generation Service is never called.
C12_HitReturnsCachedResult ==
    (resolveCache(cfg).active /\ cfg.validators = {} /\ HitWithinTtl) =>
        /\ NoModelTurn
        /\ store = entry
        /\ Terminated => AnsweredFromCache(entry)

C12_Witness ==
    /\ resolveCache(cfg).active /\ cfg.validators = {} /\ cfg.ttl # NoTtl
    /\ ~resolveCache(cfg).revalidate
    /\ HitWithinTtl
    /\ pc = "done"

\* the revalidation of the cached entry (the pipeline's run before turn 1)
RevalidationFailed ==
    RunVerdicts(0) # <<>> /\ Last(RunVerdicts(0)).outcome # PassOutcome
RevalidationPassed ==
    /\ Len(RunVerdicts(0)) = Len(ConfiguredLayers)
    /\ \A i \in 1..Len(RunVerdicts(0)) : RunVerdicts(0)[i].outcome = PassOutcome
HasEvent(type) == \E i \in 1..Len(events) : events[i].type = type

\* C13: with revalidation on, a hit within the TTL re-runs the pipeline on the
\* cached data before anything is returned; when every layer passes the
\* cached entry is returned (cache_hit, complete) without a Generation
\* Service call; when a layer fails the entry is deleted from the store,
\* cache_miss is emitted and the extraction goes on with turn 1 as on a miss.
C13_RevalidateOnHit ==
    (resolveCache(cfg).revalidate /\ HitWithinTtl) =>
        /\ (pc \in {"val_next", "val_wait"} /\ turn = 0) => data = entry.data
        /\ (pc = "done" /\ turn = 0) => RevalidationPassed
        /\ (Terminated /\ ~RevalidationFailed) => (AnsweredFromCache(entry) /\ NoModelTurn)
        /\ (RevalidationFailed /\ pc # "cache_delete") =>
              /\ store = NoEntry \/ CacheWritten
              /\ HasEvent("cache_miss")
              /\ Len(calls) >= 1
              /\ calls[1] = [turn |-> 1, messages |-> buildMessages(cfg.input)]

\* what holds of a failed revalidation whatever the store and the token do
FailedRevalidationNeverAnswersFromCache ==
    (resolveCache(cfg).revalidate /\ HitWithinTtl /\ RevalidationFailed) =>
        /\ ~HasEvent("cache_hit")
        /\ pc = "done" => (turn >= 1 /\ (store = NoEntry \/ CacheWritten))

\* the request carries validate or validateAsync
HasFunctionValidator == "sync" \in cfg.validators \/ "async" \in cfg.validators
NoCacheEvent == ~HasEvent("cache_hit") /\ ~HasEvent("cache_miss") /\ ~HasEvent("cache_set")

\* C14: for a request with validate or validateAsync and caching enabled
\* without revalidate the cache is bypassed: the store's get and set are never
\* called, no cache_hit, cache_miss or cache_set is emitted, and the result
\* comes from a model turn.
C14_FunctionValidatorsBypassCache ==
    (HasFunctionValidator /\ cfg.cache = "on") =>
        /\ pc \notin {"cache_get", "cache_delete", "cache_set"}
        /\ entry = NoEntry
        /\ NoCacheEvent
        /\ pc = "done" =>
              /\ turn >= 1 /\ Len(calls) = turn /\ TurnPassed(turn)
              /\ settled.result.turns = turn
              /\ settled.result.data = CandidateValue(replies[turn].message)

C14_Witness ==
    /\ HasFunctionValidator /\ cfg.cache = "on"
    /\ store = CachedEntry
    /\ pc = "done"

\* the run of the pipeline that preceded the return: the revalidation when
\* the answer came from the cache (turn 0), else the run of the last turn
AcceptedBy(layer, run) ==
    \E i \in 1..Len(run) : run[i].layer = layer /\ run[i].outcome = PassOutcome

\* C15: for a request with validate and/or validateAsync, the data of every
\* completed extraction, from the cache or from a model turn, was handed to
\* and accepted by those validators in this invocation.
C15_FunctionValidatorsAlwaysChecked ==
    (HasFunctionValidator /\ pc = "done") =>
        /\ settled.result.data = data
        /\ \A layer \in cfg.validators \cap {"sync", "async"} :
              AcceptedBy(layer, RunVerdicts(turn))
        /\ turn = 0 => (data = entry.data /\ HasEvent("cache_hit"))
        /\ turn >= 1 => ~HasEvent("cache_hit")

C15_Witness ==
    /\ HasFunctionValidator
    /\ pc = "done" /\ turn = 0
    /\ settled.result.data = CachedEntry.data

\* ------------------------------------------------------- write, then hit
\* this call completed through a model turn with the cache in use
CompletedByTurn == resolveCache(cfg).active /\ pc = "done" /\ turn >= 1
FirstIndex(type) == CHOOSE i \in 1..Len(events) : events[i].type = type /\
                        \A j \in 1..(i - 1) : events[j].type # type
\* cache_miss, then the events of the turns, then cache_set, then complete
MissTurnsSetComplete ==
    /\ HasEvent("cache_miss") /\ HasEvent("turn_start")
    /\ FirstIndex("cache_miss") < FirstIndex("turn_start")
    /\ \A i \in (FirstIndex("cache_miss") + 1)..(Len(events) - 2) :
          events[i].type \notin {"cache_miss", "cache_hit", "cache_set", "complete", "error"}
    /\ events[Len(events) - 1] = CacheSet
    /\ Last(events).type = "complete"
\* the entry under the request's key holds the result
StoredResult ==
    /\ store # NoEntry
    /\ ExtractResult(store.data, store.turns, store.usage) = settled.result
    /\ store.timestamp = now
\* the repeated request was answered from the cache with the first call's result
HitOnRepeat ==
    /\ NoModelTurn
    /\ Terminated =>
          /\ AnsweredFromCache(store)
          /\ settled.result = previous.result

C17_CacheWriteFailureSwallowed ==
    "set" \in faults =>
        /\ pc = "done"
        /\ turn >= 1 /\ TurnPassed(turn)
        /\ settled = Returned(ExtractResult(data, turn, UsageOfTurns(turn)))
        /\ data = CandidateValue(replies[turn].message)
        /\ Last(events) = CompleteEvent(data, turn, UsageOfTurns(turn))
        /\ events[Len(events) - 1] = TurnEnd(turn, TRUE)
        /\ ~HasEvent("cache_set") /\ ~HasEvent("error")
        /\ store \in {NoEntry, CachedEntry}

C17_Witness ==
    /\ "set" \in faults
    /\ pc = "done" /\ turn = 2
    /\ cfg.validators # {}

\* the age of the entry read exceeds the configured TTL
OlderThanTtl(e) == cfg.ttl # NoTtl /\ now - e.timestamp > cfg.ttl.n

\* C18: with a TTL configured an entry older than the TTL is never returned:
\* cache_miss is emitted and the turn loop runs as on a miss; an entry whose
\* age is at most the TTL, and any entry when no TTL is configured, is a hit.
C18_TtlDecidesHit ==
    entry # NoEntry =>
        /\ OlderThanTtl(entry) =>
              /\ ~HasEvent("cache_hit") /\ HasEvent("cache_miss")
              /\ RunVerdicts(0) = <<>>
              /\ Len(calls) >= 1 \/ aborted \/ ~cfg.hasStreamFn
              /\ pc = "done" => (turn >= 1 /\ Len(calls) = turn /\ settled.result.turns = turn)
        /\ ~OlderThanTtl(entry) =>
              /\ HasEvent("cache_miss") => RevalidationFailed
              /\ ~RevalidationFailed =>
                    (NoModelTurn /\ (Terminated => AnsweredFromCache(entry)))
              /\ ~resolveCache(cfg).revalidate => pc = "done"

C18_Witness ==
    /\ entry # NoEntry /\ OlderThanTtl(entry)
    /\ pc = "done"

\* ------------------------------------------------------------- the cache key
BothComputed == keyFirst # NoKey /\ keySecond # NoKey
\* the components the two requests differ in; models are told apart by identifier
DifferingFields ==
    {f \in KeyFields \ {"model"} : keyFirst.request[f] # keySecond.request[f]}
    \cup (IF keyFirst.request.model.id # keySecond.request.model.id
             \/ keyFirst.request.model.provider # keySecond.request.model.provider
          THEN {"model"} ELSE {})

C20_KeySeparatesRequests ==
    (BothComputed /\ Cardinality(DifferingFields) = 1) => keyFirst.key # keySecond.key

\* the same, for the components other than the model and the input
KeySeparatesOtherComponents ==
    (BothComputed /\ Cardinality(DifferingFields) = 1
     /\ DifferingFields \subseteq {"schema", "prompt", "validateCommand", "validateUrl"})
        => keyFirst.key # keySecond.key

\* --------------------------------------------------------- the cache stores
\* what get(key) would answer in a given state of the store
Lookup(m, fsys, key) ==
    IF storeKind = "memory" THEN Seen(MemoryGet(m, key)) ELSE Seen(FileGet(fsys, key))

\* the last operation was a set of a key the full memory cache did not hold
SetOfNewKeyWhenFull ==
    /\ storeKind = "memory"
    /\ lastOp.op = "set"
    /\ maxSize >= 1
    /\ Len(lastOp.map) = maxSize
    /\ ~MapHas(lastOp.map, lastOp.key)

\* the entry whose most recent touch was the oldest when the last operation began
LeastRecentlyTouched == Head(lastOp.recency)

EvictedExactlyTheLeastRecentlyTouched ==
    /\ MapKeys(map) = (MapKeys(lastOp.map) \cup {lastOp.key}) \ {LeastRecentlyTouched}
    /\ \A k \in MapKeys(lastOp.map) \ {LeastRecentlyTouched} :
          MapGet(map, k) = MapGet(lastOp.map, k)
    /\ MapGet(map, lastOp.key) = lastOp.entry

\* C21: in a memory cache of maximum size N that holds N entries, a set of a
\* new key evicts exactly the entry whose most recent touch (a get that
\* found it, or a set) is the oldest; every other entry stays retrievable.
C21_EvictsLeastRecentlyTouched ==
    SetOfNewKeyWhenFull => EvictedExactlyTheLeastRecentlyTouched

\* the same, when the least recently touched key is not the empty string
EvictsLeastRecentlyTouchedNamedKey ==
    (SetOfNewKeyWhenFull /\ LeastRecentlyTouched # <<>>) => EvictedExactlyTheLeastRecentlyTouched

\* a get moved an entry out of the oldest place before the set evicted another
EvictionAfterGetTouch ==
    /\ SetOfNewKeyWhenFull
    /\ maxSize >= 2
    /\ LeastRecentlyTouched # <<>>
    /\ MapKeys(map) = (MapKeys(lastOp.map) \cup {lastOp.key}) \ {LeastRecentlyTouched}

\* C22: after any sequence of get, set, delete and clear, with any string
\* keys (the empty string included), a memory cache holds at most maxSize
\* entries.
C22_MemoryCacheBounded ==
    storeKind = "memory" => Len(map) <= maxSize

\* get(k) answers the entry last set under k and not deleted, cleared or
\* evicted since, and undefined when there is none
GetReturnsWhatWasSet ==
    lastOp.op = "get" => lastOp.result = written[lastOp.key]

\* delete(k) leaves k undefined and every other key as it was
DeleteRemovesOnlyItsKey ==
    lastOp.op = "delete" =>
        /\ Lookup(map, fs, lastOp.key) = Undefined
        /\ \A k \in Keys \ {lastOp.key} : Lookup(map, fs, k) = Lookup(lastOp.map, lastOp.fs, k)

\* clear() leaves every key undefined
ClearRemovesEveryKey ==
    lastOp.op = "clear" => \A k \in Keys : Lookup(map, fs, k) = Undefined

\* C23: both stores: after set(k, e), get(k) returns e until k is deleted,
\* cleared or (memory store) evicted; after delete(k), get(k) returns
\* undefined and all other keys are unaffected; after clear(), get returns
\* undefined for every key.
C23_StoreContract ==
    /\ GetReturnsWhatWasSet
    /\ DeleteRemovesOnlyItsKey
    /\ ClearRemovesEveryKey

\* the contract, of the memory store alone
MemoryStoreContract == storeKind = "memory" => C23_StoreContract

\* ------------------------------------------------- concurrent invocations
\* the complete entries some set was called with before now
EarlierSets ==
    ({written[RaceKey]} \ {Undefined}) \cup { EntryOf(j) : j \in { r \in Racers : racers[r].begun } }

GetAnsweredCleanly(i) == racers[i].got \in ({NotYet, Undefined} \cup EarlierSets)

\* C24: for two invocations racing on the same key and store (memory or
\* file), in every interleaving a get returns undefined or a complete
\* entry written by an earlier set, never a partial entry and never a
\* failure, and no invocation ends otherwise than complete.
C24_ConcurrentUseTolerated ==
    \A i \in Racers : GetAnsweredCleanly(i) /\ racers[i].pc # "failed"

\* the same, of the memory store alone
MemoryStoreToleratesRace ==
    storeKind = "memory" => C24_ConcurrentUseTolerated

\* both invocations missed, both wrote, both completed
BothMissedBothWrote ==
    \A i \in Racers : racers[i].got = Undefined /\ racers[i].begun /\ racers[i].pc = "complete"

\* a get found the file with stat and lost it to the other invocation's
\* delete before readFile
ReadAfterDelete ==
    \E i \in Racers : racers[i].got = [t |-> "rejected", code |-> "ENOENT"]

\* ------------------------------------------- a request without model or streamFn
\* the extraction has ended, or will end, in a terminal error with turns 0,
\* and has read no cache, run no validator and called no model
RejectedAtOnce ==
    /\ pc \in {"init", "failed"}
    /\ pc = "failed" =>
          /\ settled.state = "rejected"
          /\ Last(events) = ErrorEvent(settled.error, 0)
    /\ NoCacheEvent /\ entry = NoEntry /\ "get" \notin faults
    /\ verdicts = <<>>
    /\ NoModelTurn

\* C25: without a model or without a generation capability (streamFn) the
\* extraction is rejected immediately: a terminal error with turns 0 before
\* any cache read, validator run or Generation Service call, and never a
\* complete, also when the cache holds a valid entry.
C25_MissingCapabilityRejected ==
    (~cfg.hasModel \/ ~cfg.hasStreamFn) => RejectedAtOnce

\* the same, of a request without a model
NoModelRejectedAtOnce == ~cfg.hasModel => RejectedAtOnce

\* a request without streamFn was answered from the cache
CompletedWithoutStreamFn ==
    ~cfg.hasStreamFn /\ pc = "done" /\ HasEvent("cache_hit")

\* ------------------------------------------------------ the caller's request
\* C26: an extraction never mutates the caller's request: after any
\* extraction (success, exhaustion, failure or abort) the caller's input, in
\* particular a conversation array, has the length and elements it had
\* before the call.
C26_RequestNotMutated ==
    Terminated => callerInput = cfg.input

\* the same, of a request whose input is a text
TextInputNotMutated ==
    (Terminated /\ cfg.input = TextInput) => callerInput = cfg.input

\* the options are never written
OptionsUnchanged == [][cfg' = cfg]_vars

\* ------------------------------------------------------ the external validators
ChildEnded == child.state = "closed" /\ validation # Pending
AllWhitespace(chars) == \A i \in 1..Len(chars) : chars[i] \in Whitespace
\* m is chars without its leading and trailing whitespace, and is not empty
IsTrimOf(m, chars) ==
    \E i, j \in 1..Len(chars) :
        /\ i <= j
        /\ m = SubSeq(chars, i, j)
        /\ chars[i] \notin Whitespace /\ chars[j] \notin Whitespace
        /\ \A k \in 1..Len(chars) : (k < i \/ k > j) => chars[k] \in Whitespace

FailsWithCommandValidationError ==
    /\ validation.state = "rejected"
    /\ validation.error.cls = "CommandValidationError"
    /\ validation.error.exitCode = child.value
    /\ IF AllWhitespace(child.stderr)
       THEN validation.error.message = Template("Command exited with code ", child.value)
       ELSE /\ validation.error.message.t = "string"
            /\ "s" \in DOMAIN validation.error.message
            /\ IsTrimOf(validation.error.message.s, child.stderr)

CommandVerdictFollowsExit ==
    IF child.value = Num(0) THEN validation = Returned(Undefined)
    ELSE FailsWithCommandValidationError

\* C27: the external-process validator passes if and only if the subprocess
\* exits with code 0; for every other way the subprocess ends it fails with
\* a CommandValidationError that carries the exit code and whose message is
\* the trimmed error output, or 'Command exited with code N' when that
\* output is empty.
C27_CommandPassesIffExitZero ==
    ChildEnded => CommandVerdictFollowsExit

\* the same, of a subprocess that exited by itself
CommandExitCodeDecides ==
    (ChildEnded /\ child.value # Null) => CommandVerdictFollowsExit

\* a subprocess that a signal ended, with error output, and the validator passed
KilledCommandPasses ==
    ChildEnded /\ child.value = Null /\ ~AllWhitespace(child.stderr)
    /\ validation = Returned(Undefined)

Responded == httpResponse # NoResponse /\ validation # Pending
Is2xx(status) == status \div 100 = 2
IsJsonObject(text) == "json" \in DOMAIN text /\ text.json # Null /\ text.json.t = "object"
HasStringField(text, name) == IsJsonObject(text) /\ text.json[name].t = "string"

\* the message by priority: error, message, the raw text, the generic text
MessageByPriority(body, status) ==
    IF HasStringField(body, "error") THEN Str(body.json.error.s)
    ELSE IF HasStringField(body, "message") THEN Str(body.json.message.s)
    ELSE IF body # Str("") THEN body
    ELSE Template("Validator returned ", status)

HttpVerdictFollowsStatus ==
    IF Is2xx(httpResponse.status) THEN validation = Returned(Undefined)
    ELSE validation = Thrown(HttpValidationError(
             MessageByPriority(httpResponse.body, httpResponse.status), Url, httpResponse.status))

\* C28: the HTTP validator passes exactly when the response status is 2xx;
\* otherwise it fails with an HttpValidationError carrying the status code,
\* whose message is, in this priority, the JSON body's string error field,
\* its string message field, the raw text body, or 'Validator returned N'
\* when the body is empty.
C28_HttpPassesIff2xx ==
    Responded => HttpVerdictFollowsStatus

\* the same, unless the field that has priority is the empty string
HttpVerdictForNonEmptyFields ==
    (Responded /\ MessageByPriority(httpResponse.body, httpResponse.status) # Str(""))
        => HttpVerdictFollowsStatus

\* ------------------------------------------------------- wrap and unwrap
SchemaLayerRan == toolArguments.handed # NotYet
HandedTheValue == toolArguments.handed.ok /\ toolArguments.handed.data = toolArguments.value

\* C29: with a wrapped non-object shape (unwrapKey 'value') the data handed
\* on equals the model's value v, whether the model returned the bare v or
\* the pre-wrapped {value: v}, for every JSON value v, a bare object with a
\* 'value' field included.
C29_UnwrapReturnsTheValue ==
    SchemaLayerRan => HandedTheValue

\* the same, unless the bare value is an object with a 'value' field
UnwrapReturnsOtherValues ==
    (SchemaLayerRan /\ ~(toolArguments.form = "bare" /\ toolArguments.value.t = "objv"))
        => HandedTheValue

\* a bare {value: x} came out as x
BareObjectUnwrapped ==
    /\ SchemaLayerRan
    /\ toolArguments.form = "bare" /\ toolArguments.value.t = "objv"
    /\ toolArguments.handed.ok /\ toolArguments.handed.data = toolArguments.value.inner

\* ---- C30
RECURSIVE RefsIn(_)
\* the names a node still refers to
RefsIn(node) ==
    IF node.t = "ref" THEN {node.ref}
    ELSE IF node.t = "object" THEN UNION { RefsIn(node.props[i]) : i \in DOMAIN node.props }
    ELSE {}

\* the definitions a reference to `name` leads to in one step
RefersTo(name) ==
    IF resolveRef(name, resolver.defs) = Undefined THEN {}
    ELSE { n \in RefsIn(resolver.defs[name]) : resolveRef(n, resolver.defs) # Undefined }

RECURSIVE Onward(_, _)
\* the definitions reached from the names S in at most k further steps
Onward(S, k) ==
    IF k = 0 THEN S ELSE Onward(S \cup UNION { RefersTo(n) : n \in S }, k - 1)

\* the definitions the root reaches, and those of them that lie on a cycle
Reached ==
    Onward({ n \in RefsIn(resolver.root) : resolveRef(n, resolver.defs) # Undefined },
           Cardinality(DefNames))
OnCycle == { n \in Reached : n \in Onward(RefersTo(n), Cardinality(DefNames)) }

Cyclic == OnCycle # {}
Resolved == resolver.control.mode = "done"

\* C30: a shape whose references form a cycle (a definition that refers to
\* itself, or two that refer to each other) is resolved in finitely many steps:
\* resolveRefs returns a value, and in it a reference into the cycle is left as
\* a reference node.
C30_CyclicRefsTerminate ==
    (resolver.stack = <<>> /\ resolver.control.mode = "call" /\ Cyclic)
        ~> (Resolved /\ RefsIn(resolver.control.value) \cap OnCycle # {})

\* the call stack never overflows, cyclic or not
ResolveNeverOverflows == resolver.control.mode # "overflow"

\* the references left in the result are those into a cycle and those that
\* name no definition; every other reference is replaced by its referent
OnlyCycleEdgesLeft ==
    Resolved =>
        \A n \in RefsIn(resolver.control.value) :
            n \in OnCycle \/ resolveRef(n, resolver.defs) = Undefined

\* two definitions that refer to each other were resolved, one edge left
MutualCycleResolved ==
    /\ Resolved
    /\ resolver.defs # Undefined
    /\ "B" \in RefsIn(resolver.defs["A"])
    /\ "A" \in RefsIn(resolver.defs["B"])
    /\ {"A", "B"} \subseteq Reached
    /\ RefsIn(resolver.control.value) \cap {"A", "B"} # {}

\* a definition that refers to itself was resolved to that reference
SelfCycleResolved ==
    /\ Resolved
    /\ resolver.defs # Undefined
    /\ resolver.root = Ref("A")
    /\ resolver.defs["A"] = Ref("A")
    /\ resolver.control.value = Ref("A")

\* ---- C31
\* the union of a shape: the shape itself, or its one property
UnionOf(shape) == IF shape.anyOf # <<>> THEN shape ELSE shape.properties[1]
\* and the node at the union's place in what the passes made of the shape
UnionAfter ==
    IF normalization.schema.value.anyOf # <<>> THEN normalization.normalizedSchema.value
    ELSE normalization.normalizedSchema.value.properties[1]
PassesRan ==
    /\ normalization.provider \in PROVIDERS_WITH_SCHEMA_CONSTRAINTS
    /\ normalization.at \in {"normalized", "returned"}
AllSingleConstants(node) == \A i \in DOMAIN node.anyOf : node.anyOf[i].const # Undefined
SharedBaseTypes(node) ==
    { t \in {"string", "number"} : \A i \in DOMAIN node.anyOf : node.anyOf[i].type = t }
RewrittenToEnum(before, after) ==
    /\ after.anyOf = <<>>
    /\ after.enum = [i \in DOMAIN before.anyOf |-> before.anyOf[i].const]

\* C31: for a provider with schema constraints, a node whose anyOf alternatives
\* are all single constants comes out with an enum of exactly those constants
\* in order and without anyOf; its type is the alternatives' type when all of
\* them share one, and is not taken from the alternatives otherwise.
C31_LiteralUnionBecomesEnum ==
    (PassesRan /\ AllSingleConstants(UnionOf(normalization.schema.value))) =>
        LET before == UnionOf(normalization.schema.value)
            after == UnionAfter
        IN  /\ RewrittenToEnum(before, after)
            /\ IF SharedBaseTypes(before) # {}
               THEN after.type \in SharedBaseTypes(before)
               ELSE after.type \in {"none", before.type}

\* the enum and the missing anyOf alone, whatever the types
LiteralUnionBecomesEnumOfConstants ==
    (PassesRan /\ AllSingleConstants(UnionOf(normalization.schema.value))) =>
        RewrittenToEnum(UnionOf(normalization.schema.value),
                        UnionAfter)

\* the type as claimed, when either every alternative states a type or none does
LiteralUnionTypeWhenUniformlyTyped ==
    LET before == UnionOf(normalization.schema.value)
        after == UnionAfter
        typed == { i \in DOMAIN before.anyOf : before.anyOf[i].type # "none" }
    IN  (PassesRan /\ AllSingleConstants(before) /\ typed \in {{}, DOMAIN before.anyOf}) =>
            IF SharedBaseTypes(before) # {}
            THEN after.type \in SharedBaseTypes(before)
            ELSE after.type \in {"none", before.type}

\* a typed and an untyped constant: the enum takes the type of the typed one
TypeTakenFromOneAlternative ==
    LET before == UnionOf(normalization.schema.value)
        after == UnionAfter
    IN  /\ PassesRan
        /\ before.type = "none"
        /\ Len(before.anyOf) = 2
        /\ before.anyOf[1].const = Str("a") /\ before.anyOf[1].type = "string"
        /\ before.anyOf[2].const = Num(1) /\ before.anyOf[2].type = "none"
        /\ after.type = "string"
        /\ after.enum = <<Str("a"), Num(1)>>

\* ---- C32
NormalizeReturned == normalization.at = "returned"
PassedThrough ==
    /\ normalization.result.schema = normalization.schema
    /\ normalization.result.unwrapKey = Null
ObjectShaped(shape) == shape.type = "object" \/ shape.properties # <<>>

\* C32: a provider with neither constraint gets the caller's shape object
\* itself and a null unwrapKey, and so does a provider that only requires an
\* object root when the shape is an object shape already.
C32_UnconstrainedPassThrough ==
    NormalizeReturned =>
        /\ normalization.provider \notin PROVIDERS_REQUIRING_OBJECT_SCHEMA => PassedThrough
        /\ (/\ normalization.provider \in PROVIDERS_REQUIRING_OBJECT_SCHEMA
            /\ normalization.provider \notin PROVIDERS_WITH_SCHEMA_CONSTRAINTS
            /\ ObjectShaped(normalization.schema.value)) => PassedThrough

\* an object shape with a union property came back untouched for openai-codex
ObjectShapePassedThrough ==
    /\ NormalizeReturned
    /\ normalization.provider = "openai-codex"
    /\ normalization.schema.value.type = "object"
    /\ normalization.schema.value.properties # <<>>
    /\ normalization.schema.value.defs
    /\ PassedThrough

\* with neither constraint a shape that is no object passes through as well
UnionPassedThrough ==
    /\ NormalizeReturned
    /\ normalization.provider = "anthropic"
    /\ normalization.schema.value.anyOf # <<>>
    /\ PassedThrough

\* ---- C33
LaterExtraction == warm.phase = "later"
StoresAnswered == warm.faults = {} /\ faults = {}
NoneRejected == \A i \in DOMAIN events : events[i].type # "validation_error"
HitWithoutCall ==
    /\ calls = <<>>
    /\ pc \in {"done", "failed"} => \E i \in DOMAIN events : events[i].type = "cache_hit"

\* C33: after warmCache has returned, an extraction of the same input with the
\* options warmCache was given (a cache among them), within the TTL, not
\* cancelled, with the store answering and no validator rejecting the cached
\* data, is a cache hit and calls the Generation Service not once; function
\* validators among the options make no difference.
C33_WarmedInputHits ==
    (LaterExtraction /\ warm.raw # "undefined" /\ ~aborted /\ StoresAnswered /\ NoneRejected)
        => HitWithoutCall

\* the same for options without function validators, and for options that
\* enable revalidation themselves
WarmedInputHitsWhenCacheableAsGiven ==
    (/\ LaterExtraction /\ warm.raw # "undefined" /\ ~aborted /\ StoresAnswered /\ NoneRejected
     /\ ({"sync", "async"} \cap cfg.validators = {} \/ warm.raw = "revalidate"))
        => HitWithoutCall

\* warmCache forced revalidate, the later extraction with the caller's own
\* options bypasses the cache and calls the Generation Service
WarmedButCalledAgain ==
    /\ LaterExtraction
    /\ warm.raw = "store"
    /\ "sync" \in cfg.validators
    /\ StoresAnswered /\ ~aborted
    /\ store # NoEntry
    /\ calls # <<>>

\* a later extraction that was a hit
WarmedAndHit ==
    /\ LaterExtraction
    /\ warm.raw = "revalidate"
    /\ "sync" \in cfg.validators
    /\ pc = "done"
    /\ calls = <<>>
    /\ \E i \in DOMAIN events : events[i].type = "cache_hit"

\* ---- C34
CliReturned == cli # NoCli
TerminalEvent == events[Len(events)]

\* C34: the exit code follows the terminal event: 0 only after complete, 1
\* exactly when the terminal error is a MaxTurnsError, 3 for every other
\* terminal error (an aborted extraction and a failed Generation Service call
\* among them), and never 0 after an error event.
C34_ExitCodeFollowsTerminalEvent ==
    CliReturned =>
        /\ cli.code = 0 => TerminalEvent.type = "complete"
        /\ cli.code = 1 <=> (TerminalEvent.type = "error" /\ TerminalEvent.error.cls = "MaxTurnsError")
        /\ (TerminalEvent.type = "error" /\ TerminalEvent.error.cls # "MaxTurnsError") => cli.code = 3
        /\ TerminalEvent.type = "error" => cli.code # 0

\* the turns ran out and the CLI returned 1
ExitOneAfterMaxTurns ==
    /\ CliReturned
    /\ cli.code = 1
    /\ TerminalEvent.type = "error"
    /\ TerminalEvent.error.cls = "MaxTurnsError"
    /\ turn = cfg.maxTurns

\* the extraction was cancelled during a model call and the CLI returned 3
ExitThreeAfterAbort ==
    /\ CliReturned
    /\ cli.code = 3
    /\ aborted
    /\ TerminalEvent.type = "error"
    /\ TerminalEvent.error.cls = "AbortError"

\* a store failure leaves the stream without a terminal event, and the CLI's
\* loop over it without an end
NoTerminalEventNoExit ==
    /\ pc = "failed"
    /\ faults # {}
    /\ \A i \in DOMAIN events : ~IsTerminalEvent(events[i])
    /\ ~ENABLED CliReturns

\* ---- C35
\* the step in which the Generation Service's answer arrives
Answered == pc = "llm" /\ Len(replies') = Len(replies) + 1 /\ Last(replies').ok
Pushed == SubSeq(events', Len(events) + 1, Len(events'))
NoCandidate(m) == ~RespondCall(m) /\ m.textJson = Null
TurnEndsPushed(evs) == { i \in DOMAIN evs : evs[i].type = "turn_end" }

\* C35: a turn whose answer holds neither a respond tool call nor JSON text
\* appends the assistant message and one continue message to the conversation,
\* attempts no validation layer (no validation event, lastError as it was),
\* ends with turn_end(hasResult false) and goes round the loop: the next turn
\* starts, or the loop ends there because the turns are used up or the token
\* is signaled.
C35_NoCandidateContinues ==
    [][(Answered /\ NoCandidate(Last(replies').message)) =>
          LET m == Last(replies').message
          IN  /\ messages' = messages \o <<m, UserMessage(<<CONTINUE_TEXT>>)>>
              /\ lastError' = lastError
              /\ verdicts' = verdicts
              /\ \A i \in DOMAIN Pushed :
                    Pushed[i].type \notin {"validation_start", "validation_pass", "validation_error"}
              /\ \E i \in DOMAIN Pushed :
                    /\ TurnEndsPushed(Pushed) = {i}
                    /\ Pushed[i] = TurnEnd(turn, FALSE)
                    /\ IF turn < cfg.maxTurns /\ ~aborted
                       THEN /\ Pushed[i + 1] = TurnStart(turn + 1)
                            /\ turn' = turn + 1 /\ pc' = "llm"
                            /\ Last(calls').messages = messages'
                       ELSE /\ pc' = "failed"
                            /\ Pushed[i + 1].type = "error"
                            /\ Pushed[i + 1].error.cls =
                                  (IF turn = cfg.maxTurns THEN "MaxTurnsError" ELSE "AbortError")
    ]_vars

\* a first turn without a candidate was followed by a second turn
C35_Witness ==
    /\ Len(replies) >= 1
    /\ replies[1].ok /\ NoCandidate(replies[1].message)
    /\ turn = 2 /\ pc = "llm"
    /\ Len(messages) = 3
    /\ messages[3] = UserMessage(<<CONTINUE_TEXT>>)
    /\ verdicts = <<>>

\* ---- C36
TurnStartsAt == { i \in DOMAIN events : events[i].type = "turn_start" }
\* the number of turn_start events, of those at starts, among the first i events
StartsUpTo(starts, i) == Cardinality({ j \in starts : j <= i })

\* C36: the Generation Service is called at most maxTurns times; the turn_start
\* events carry 1, 2, ... in this order; and turn_start(t) is followed by
\* turn_end(t), or by the terminal error event, before turn_start(t + 1) and
\* before the extraction ends.
C36_TurnsBoundedAndOrdered ==
    LET starts == TurnStartsAt
    IN  /\ Len(calls) <= cfg.maxTurns
        /\ Len(replies) <= cfg.maxTurns
        /\ \A i \in starts :
              LET closes == { j \in (i + 1)..Len(events) :
                                \/ events[j].type = "turn_end" /\ events[j].turn = events[i].turn
                                \/ events[j].type = "error" }
              IN  /\ events[i].turn = StartsUpTo(starts, i)
                  /\ \A j \in starts :
                        j > i => \E c \in closes : c < j /\ events[c].type = "turn_end"
                  /\ Terminated => closes # {}

\* two turns and then the terminal error
C36_Witness ==
    /\ cfg.maxTurns = 2
    /\ pc = "failed"
    /\ Len(calls) = 2
    /\ Cardinality(TurnStartsAt) = 2
    /\ settled.error.cls = "MaxTurnsError"
    /\ \E i \in DOMAIN events : events[i] = TurnEnd(1, FALSE)

\* ---- C37
CompletedThroughTurn == Terminated /\ Last(events).type = "complete" /\ turn >= 1
LastTurnStart == CHOOSE i \in TurnStartsAt : \A j \in TurnStartsAt : j <= i
EventsOfLastTurn == SubSeq(events, LastTurnStart, Len(events))
PassedLayers(evs) == { evs[i].layer : i \in { j \in DOMAIN evs : evs[j].type = "validation_pass" } }

\* C37: an extraction that completes through model turn t returns data that
\* passed, in turn t, the schema layer and then every configured validator
\* layer: the events of turn t hold validation_pass for "schema" and for each
\* configured layer, schema first, and no validation_error; the data returned
\* is the data the layers saw.
C37_CompletedDataPassedEveryLayer ==
    CompletedThroughTurn =>
        LET evs == EventsOfLastTurn
        IN  /\ evs[1] = TurnStart(turn)
            /\ Last(events).turns = turn
            /\ PassedLayers(evs) = {"schema"} \cup cfg.validators
            /\ \A i \in DOMAIN evs : evs[i].type # "validation_error"
            /\ \A i, j \in DOMAIN evs :
                  (evs[i].type = "validation_pass" /\ evs[i].layer = "schema"
                   /\ evs[j].type = "validation_pass" /\ evs[j].layer # "schema") => i < j
            /\ Last(events).result = data
            /\ settled.result.data = data

\* completed in the second turn, with two validator layers configured
C37_Witness ==
    /\ CompletedThroughTurn
    /\ turn = 2
    /\ cfg.validators = {"async", "http"}
    /\ PassedLayers(EventsOfLastTurn) = {"schema", "async", "http"}

\* ------------------------------------- a failed revalidation and a newer entry
\* invocation i is leaving line 101: its cacheStore.delete has answered
Evicts(i) == racers[i].pc = "delete" /\ racers'[i].pc # "delete"

\* the store holds the entry invocation j set, and i revalidated another one
HoldsNewerThanRevalidated(i, j) ==
    /\ racers[i].got # EntryOf(j)
    /\ Lookup(map, fs, RaceKey) = EntryOf(j)

\* C38: a failed revalidation evicts only the entry that was revalidated:
\* an entry another invocation stored under the same key while the
\* revalidation was in flight is still in the store after the failing
\* invocation's eviction.
C38_FailedRevalidationKeepsNewerEntry ==
    [][\A i \in Racers : \A j \in Racers \ {i} :
          (Evicts(i) /\ HoldsNewerThanRevalidated(i, j))
              => Lookup(map', fs', RaceKey) = EntryOf(j)]_vars

\* what the code does instead: the eviction leaves nothing under the key,
\* whichever entry was there
C38_EvictionEmptiesTheKey ==
    [][\A i \in Racers :
          (Evicts(i) /\ racers'[i].pc = "turn") => Lookup(map', fs', RaceKey) = Undefined]_vars

\* an invocation has evicted after revalidating the initial entry, the other
\* one has set its own entry and returned, and the key is empty
NewerEntryEvicted ==
    \E i \in Racers : \E j \in Racers \ {i} :
        /\ racers[i].got = CachedEntry /\ racers[i].pc = "turn" /\ ~racers[i].begun
        /\ racers[j].got = CachedEntry /\ racers[j].pc = "complete" /\ racers[j].begun
        /\ Lookup(map, fs, RaceKey) = Undefined

\* --------------------------------------------- a cache hit without revalidation
\* the events of a validator layer
ValidationEventsAt ==
    { i \in DOMAIN events :
        events[i].type \in {"validation_start", "validation_pass", "validation_error"} }
\* event i was pushed before any turn began: its layer was given cached data
OnCachedData(i) == \A j \in 1..i : events[j].type # "turn_start"
\* the request names a store and does not ask for revalidation
CachedWithoutRevalidate == cfg.cache = "on"
ExternalConfigured == cfg.validators \cap {"command", "http"} # {}

\* C39: on a within-TTL hit with revalidation not enabled the cached data
\* is returned without running any validator, a configured command or HTTP
\* validator included, and no validation_start event is emitted; validators
\* run against cached data only when revalidate is enabled.
C39_HitWithoutRevalidateRunsNoValidator ==
    /\ (CachedWithoutRevalidate /\ HasEvent("cache_hit")) =>
          /\ ValidationEventsAt = {}
          /\ calls = <<>>
          /\ pc = "done"
          /\ settled = Returned(ExtractResult(entry.data, entry.turns, entry.usage))
          /\ events[Len(events)] = CompleteEvent(entry.data, entry.turns, entry.usage)
    /\ (\E i \in ValidationEventsAt : OnCachedData(i)) => cfg.cache = "revalidate"

\* a hit answered from the cache although an external validator is configured
C39_Witness ==
    /\ CachedWithoutRevalidate /\ ExternalConfigured
    /\ HasEvent("cache_hit") /\ pc = "done"

\* with revalidate enabled an external validator has been started on the
\* cached data
ExternalRevalidated ==
    /\ cfg.cache = "revalidate"
    /\ \E i \in ValidationEventsAt :
          OnCachedData(i) /\ events[i].layer \in {"command", "http"}

\* ------------------------------------------------- a cancelled revalidation
\* the token was signaled while runValidators awaited a layer on cached data
CancelledWhileRevalidating ==
    aborted /\ abortedAt = [pc |-> "val_wait", turn |-> 0]
Ended == pc \in {"done", "failed"}
\* what the layers answered on the cached data
RevalidationVerdicts == { i \in DOMAIN verdicts : verdicts[i].turn = 0 }
PlatformAbort(e) == e.kind = "Error" /\ e.cls = "DOMException"
\* a layer rejected the cached data for what it is
CachedDataRejected ==
    \E i \in RevalidationVerdicts :
        verdicts[i].outcome # PassOutcome /\ ~PlatformAbort(verdicts[i].outcome)
EndedCancelled ==
    /\ pc = "failed"
    /\ settled = Thrown(toAbortError(abortReason))

\* C40: when the token is signaled while a cached entry is being
\* revalidated, the extraction ends with a cancellation error and the
\* cached entry is still in the store afterwards; an entry is evicted only
\* when a validator actually rejected the cached data.
C40_CancelledRevalidationKeepsEntry ==
    /\ (CancelledWhileRevalidating /\ Ended) => (EndedCancelled /\ store = entry)
    /\ (entry # NoEntry /\ ~Expired(entry) /\ store = NoEntry) => CachedDataRejected

\* what the code does: a cancelled revalidation that ends in an error has
\* evicted the entry first, unless the store failed to delete it; one that
\* ends in a result has answered from the cache
C40_CancelledRevalidationEvicts ==
    (CancelledWhileRevalidating /\ Ended) =>
        \/ pc = "failed" /\ store = NoEntry /\ settled = Thrown(toAbortError(abortReason))
        \/ pc = "failed" /\ "delete" \in faults /\ store = entry
        \/ pc = "done" /\ store = entry /\ HasEvent("cache_hit")

\* the layer was cut short by the signal, no layer rejected the cached data,
\* and the extraction ended cancelled with the entry gone
CancelledRevalidationEvicted ==
    /\ CancelledWhileRevalidating /\ EndedCancelled
    /\ entry = CachedEntry /\ store = NoEntry
    /\ ~CachedDataRejected

====
